---------------------------- MODULE Spec2Model ----------------------------
(***************************************************************************)
(* PDF redaction server (pdf_redaction_mcp/server.py).                     *)
(*                                                                         *)
(* The tools of server.py are modelled as handlers over an abstract PDF    *)
(* engine.  A page is a row of cells, each holding one character (or a     *)
(* blank); cell i occupies the rectangle <<i-1, 0, i, 1>>.  The engine's   *)
(* primitives (open, page access, text extraction, literal search, staging *)
(* a redaction annotation, applying the redactions of a page, saving,      *)
(* closing) act on a run state that carries the handles opened by the      *)
(* call, the log of engine operations, and the pending exception.  Once an *)
(* exception is pending every later primitive is skipped, which is how the *)
(* body of a Python try block unwinds.                                     *)
(***************************************************************************)
EXTENDS Integers, Sequences, FiniteSets, TLC

VARIABLES call, ret, log, out, handles, crashed, store, open, opened, disk, threads

vars == <<call, ret, log, out, handles, crashed, store, open, opened, disk, threads>>

-----------------------------------------------------------------------------
(* Bounds of the model *)

MaxPages == 2

MaxFaultIndex == 2

-----------------------------------------------------------------------------
(* Characters, strings and rectangles *)

Blank == " "

Fold(c) == IF c = "A" THEN "a" ELSE c

FoldStr(t) == [i \in 1..Len(t) |-> Fold(t[i])]

Min(a, b) == IF a < b THEN a ELSE b

\* pymupdf.Rect(bbox): the rectangle of a list of four numbers
Rect(x0, y0, x1, y1) == <<x0, y0, x1, y1>>

\* the rectangle of cell i of a page
CellRect(i) == Rect(i - 1, 0, i, 1)

\* two rectangles share interior points
Overlaps(r, q) == r[1] < q[3] /\ q[1] < r[3] /\ r[2] < q[4] /\ q[2] < r[4]

-----------------------------------------------------------------------------
(* Documents *)

\* a redaction annotation staged on a page
Mark(rect, text, fill) == [rect |-> rect, text |-> text, fill |-> fill]

Page(text, images) == [text |-> text, annots |-> <<>>, images |-> images]

Image(infinite, bbox) == [infinite |-> infinite, bbox |-> bbox]

PagePool ==
    { Page(<<"a", "b", "a">>, <<>>),
      Page(<<"b", "A", "b">>, <<Image(FALSE, Rect(0, 0, 2, 1)), Image(TRUE, Rect(0, 0, 0, 0))>>),
      Page(<<"b", "b", "b">>, <<>>) }

RECURSIVE SeqsUpTo(_, _)
SeqsUpTo(S, n) ==
    IF n = 0 THEN { <<>> }
    ELSE LET shorter == SeqsUpTo(S, n - 1)
         IN shorter \cup { Append(q, x) : q \in shorter, x \in S }

\* the documents the tools are given: one to MaxPages pages
DocPool == { [pages |-> q] : q \in SeqsUpTo(PagePool, MaxPages) \ { <<>> } }

\* what a path resolves to, or what a byte buffer holds
PdfFile(doc) == [kind |-> "pdf", doc |-> doc]

GarbageFile == [kind |-> "garbage"]

MissingFile == [kind |-> "missing"]

FilePool == { PdfFile(d) : d \in DocPool } \cup { GarbageFile, MissingFile }

\* doc.save: the bytes of a document; pending annotations are part of the file
Serialize(doc) == PdfFile(doc)

\* base64.b64encode / base64.b64decode
B64Encode(bytes) == [b64 |-> TRUE, bytes |-> bytes]

BadB64 == [b64 |-> FALSE]

-----------------------------------------------------------------------------
(* The engine: run state and primitives *)

NoFault == [kind |-> "none", n |-> 0]

FaultKinds ==
    { "open", "load_page", "get_text", "search_for", "add_redact_annot",
      "apply_redactions", "save", "close", "get_images", "get_image_bbox",
      "get_links" }

\* the n-th engine operation of one kind raises
Faults == { NoFault } \cup { [kind |-> k, n |-> n] : k \in FaultKinds, n \in 1..MaxFaultIndex }

Op(op, h, page) == [op |-> op, h |-> h, page |-> page]

Begin(fault) ==
    [ h |-> <<>>, log |-> <<>>, exc |-> "", faulted |-> FALSE, fault |-> fault,
      out |-> MissingFile, loc |-> <<>> ]

Raise(s, msg) == IF s.exc # "" THEN s ELSE [s EXCEPT !.exc = msg]

CountOps(lg, kind) == Cardinality({ i \in 1..Len(lg) : lg[i].op = kind })

\* one engine operation is attempted: it is logged, and raises if it is the
\* operation the fault names
Step(s, op) ==
    LET lg == Append(s.log, op)
    IN IF s.fault.kind = op.op /\ s.fault.n = CountOps(lg, op.op)
       THEN [s EXCEPT !.log = lg, !.exc = "engine failure in " \o op.op, !.faulted = TRUE]
       ELSE [s EXCEPT !.log = lg]

Usable(s, h) == h \in 1..Len(s.h) /\ ~s.h[h].closed

\* len(doc); 0 stands for a handle the call does not hold
PageCount(s, h) == IF h \in 1..Len(s.h) THEN Len(s.h[h].doc.pages) ELSE 0

\* pymupdf.open(path) / pymupdf.open(stream=bytes); the handles of a call are
\* numbered in the order of its opens: 1 is the first document it opens
Open(s, file) ==
    IF s.exc # "" THEN s
    ELSE LET t == Step(s, Op("open", Len(s.h) + 1, -1))
         IN IF t.exc # "" THEN t
            ELSE IF file.kind = "missing" THEN Raise(t, "no such file")
            ELSE IF file.kind # "pdf" THEN Raise(t, "cannot open broken document")
            ELSE [t EXCEPT !.h = Append(@, [doc |-> file.doc, closed |-> FALSE])]

\* doc.close()
Close(s, h) ==
    IF s.exc # "" THEN s
    ELSE LET t == Step(s, Op("close", h, -1))
         IN IF t.exc # "" THEN t
            ELSE IF ~Usable(t, h) THEN Raise(t, "document closed")
            ELSE [t EXCEPT !.h[h].closed = TRUE]

\* len(doc) on a document that may have been closed: a closed document
\* raises; on an open document len(doc) is PageCount
LenDoc(s, h) ==
    IF s.exc # "" THEN s
    ELSE IF ~Usable(s, h) THEN Raise(s, "document closed") ELSE s

\* Document.load_page: a negative index counts from the end
WrapIndex(i, n) == IF i < 0 /\ n > 0 THEN n - ((-i - 1) % n) - 1 ELSE i

\* doc[page_num]: Document.__contains__ accepts every index below the page count
LoadPage(s, h, i) ==
    IF s.exc # "" THEN s
    ELSE LET t == Step(s, Op("load_page", h, i))
         IN IF t.exc # "" THEN t
            ELSE IF ~Usable(t, h) THEN Raise(t, "document closed")
            ELSE IF i >= PageCount(t, h) THEN Raise(t, "page not in document")
            ELSE t

\* the page object doc[page_num] of a handle (1-based position in pages)
PageAt(s, h, i) == s.h[h].doc.pages[WrapIndex(i, PageCount(s, h)) + 1]

HasPage(s, h, i) == Usable(s, h) /\ i < PageCount(s, h) /\ PageCount(s, h) > 0

\* page.get_text("text")
GetText(s, h, i) == IF s.exc # "" THEN s ELSE Step(s, Op("get_text", h, i))

\* a text extraction that takes the cells under a pending annotation as gone
TextOfUnderMarks(s, h, i) ==
    IF HasPage(s, h, i)
    THEN [c \in 1..Len(PageAt(s, h, i).text) |->
            IF \E k \in 1..Len(PageAt(s, h, i).annots) :
                   Overlaps(PageAt(s, h, i).annots[k].rect, CellRect(c))
            THEN Blank ELSE PageAt(s, h, i).text[c]]
    ELSE <<>>

\* the text of a page as get_text and search_for read it: annotations that
\* are pending on the page take nothing from it
TextOf(s, h, i) == IF HasPage(s, h, i) THEN PageAt(s, h, i).text ELSE <<>>

\* the engine's literal locator on a row of cells: case-insensitive, left to
\* right, hits do not overlap; an empty needle has no hit
RECURSIVE Locate(_, _, _)
Locate(text, needle, from) ==
    IF Len(needle) = 0 \/ from + Len(needle) - 1 > Len(text) THEN <<>>
    ELSE IF FoldStr(SubSeq(text, from, from + Len(needle) - 1)) = FoldStr(needle)
         THEN <<Rect(from - 1, 0, from - 1 + Len(needle), 1)>>
                  \o Locate(text, needle, from + Len(needle))
         ELSE Locate(text, needle, from + 1)

\* page.search_for(needle); the log keeps the needle of each search
SearchFor(s, h, i, needle) ==
    IF s.exc # "" THEN s
    ELSE Step(s, [op |-> "search_for", h |-> h, page |-> i, needle |-> needle])

RectsOf(s, h, i, needle) == IF s.exc # "" THEN <<>> ELSE Locate(TextOf(s, h, i), needle, 1)

\* page.add_redact_annot(rect, text=..., fill=...)
AddRedactAnnot(s, h, i, rect, text, fill) ==
    IF s.exc # "" THEN s
    ELSE LET t == Step(s, Op("add_redact_annot", h, i))
             p == WrapIndex(i, PageCount(s, h)) + 1
         IN IF t.exc # "" THEN t
            ELSE [t EXCEPT !.h[h].doc.pages[p].annots = Append(@, Mark(rect, text, fill))]

Covered(annots, i) == \E k \in 1..Len(annots) : Overlaps(annots[k].rect, CellRect(i))

\* the overlay text of a mark is drawn into its rectangle when it fits
Fits(text, m) ==
    /\ Len(m.text) > 0
    /\ m.rect[1] >= 0 /\ m.rect[3] <= Len(text) /\ m.rect[2] < 1 /\ m.rect[4] > 0
    /\ Len(m.text) <= m.rect[3] - m.rect[1]

DrawOverlay(text, m) ==
    IF Fits(text, m)
    THEN [i \in 1..Len(text) |->
            IF i > m.rect[1] /\ i <= m.rect[1] + Len(m.text) THEN m.text[i - m.rect[1]] ELSE text[i]]
    ELSE text

RECURSIVE DrawOverlays(_, _)
DrawOverlays(text, annots) ==
    IF annots = <<>> THEN text
    ELSE DrawOverlays(DrawOverlay(text, Head(annots)), Tail(annots))

\* SelectSeq without a lambda over a record field
RECURSIVE KeepImages(_, _)
KeepImages(images, annots) ==
    IF images = <<>> THEN <<>>
    ELSE LET im == Head(images)
             hit == ~im.infinite /\ \E k \in 1..Len(annots) : Overlaps(annots[k].rect, im.bbox)
         IN (IF hit THEN <<>> ELSE <<im>>) \o KeepImages(Tail(images), annots)

\* a commit that only drops the marks: the text under them stays on the page
CommitKeepingText(page, remove_images) == [page EXCEPT !.annots = <<>>]

\* the commit of one page: every character under a pending mark is removed,
\* the overlays are drawn, no mark stays pending; with remove_images the
\* images under a mark are stripped, otherwise they stay
Commit(page, remove_images) ==
    LET cleared == [i \in 1..Len(page.text) |->
                      IF Covered(page.annots, i) THEN Blank ELSE page.text[i]]
    IN [ text |-> DrawOverlays(cleared, page.annots),
         annots |-> <<>>,
         images |-> IF remove_images THEN KeepImages(page.images, page.annots)
                    ELSE page.images ]

\* page.apply_redactions(images=...)
ApplyRedactions(s, h, i, remove_images) ==
    IF s.exc # "" THEN s
    ELSE LET t == Step(s, Op("apply_redactions", h, i))
             p == WrapIndex(i, PageCount(s, h)) + 1
         IN IF t.exc # "" THEN t
            ELSE [t EXCEPT !.h[h].doc.pages[p] = Commit(@, remove_images)]

\* doc.save(destination); saving over the opened file needs incremental mode
Save(s, h, same_file) ==
    IF s.exc # "" THEN s
    ELSE LET t == Step(s, Op("save", h, -1))
         IN IF t.exc # "" THEN t
            ELSE IF ~Usable(t, h) THEN Raise(t, "document closed")
            ELSE IF same_file THEN Raise(t, "save to original must be incremental")
            ELSE [t EXCEPT !.out = Serialize(t.h[h].doc)]

\* base64.b64decode(pdf_data)
B64Decode(s, data) ==
    IF s.exc # "" THEN s
    ELSE IF ~data.b64 THEN Raise(s, "Incorrect padding") ELSE s

BytesOf(data) == IF data.b64 THEN data.bytes ELSE GarbageFile

-----------------------------------------------------------------------------
(* Results *)

ErrorResult(msg) == [kind |-> "error", error |-> msg]

NoResult == [kind |-> "none"]

\* a handler without its except clause: the exception leaves the call
CatchNothing(s, result) ==
    [ ret |-> IF s.exc # "" THEN NoResult ELSE result, crashed |-> s.exc # "" ]

\* try: ... except Exception as e: return json.dumps({"error": str(e)})
Catch(s, result) ==
    [ ret |-> IF s.exc # "" THEN ErrorResult(s.exc) ELSE result,
      crashed |-> FALSE ]

\* what the call leaves behind: its result, the log, the file it wrote, the
\* state of the handles it opened
Outcome(s, result) ==
    LET c == Catch(s, result)
    IN [ ret |-> c.ret, crashed |-> c.crashed, log |-> s.log, out |-> s.out,
         handles |-> [i \in 1..Len(s.h) |-> s.h[i].closed], faulted |-> s.faulted,
         docs |-> [i \in 1..Len(s.h) |-> s.h[i].doc] ]

-----------------------------------------------------------------------------
(* Inputs of the tools *)

\* an optional integer: <<>> is None, <<n>> is n
NoPage == <<>>

PageArgs == { NoPage } \cup { <<n>> : n \in -1..MaxPages }

PatternPool == { <<"a">>, <<"a", "b">> }

PatternLists ==
    { <<>>, <<<<"a">>>>, <<<<"a", "b">>>>, <<<<"a">>, <<"a", "b">>>>,
      <<<<"a", "b">>, <<"a">>>>, <<<<"a">>, <<"a">>>> }

OverlayPool == { <<>>, <<"a">>, <<"b">>, <<"b", "a">> }

FillPool == { <<0, 0, 0>>, <<1, 1, 1>> }

\* range(n)
Range(n) == [i \in 1..n |-> i - 1]

-----------------------------------------------------------------------------
(* search_text_in_pdf / search_text_in_pdf_base64 *)

\* re.finditer(pattern, text, flags) for a pattern without metacharacters:
\* the matched substrings, left to right, not overlapping
RECURSIVE ReFindIter(_, _, _, _)
ReFindIter(text, pattern, ignorecase, from) ==
    IF Len(pattern) = 0 \/ from + Len(pattern) - 1 > Len(text) THEN <<>>
    ELSE LET sub == SubSeq(text, from, from + Len(pattern) - 1)
             same == IF ignorecase THEN FoldStr(sub) = FoldStr(pattern) ELSE sub = pattern
         IN IF same THEN <<sub>> \o ReFindIter(text, pattern, ignorecase, from + Len(pattern))
            ELSE ReFindIter(text, pattern, ignorecase, from + 1)

\* one record for a matched text, whatever the number of its boxes
MatchRecordsFirstBox(page_num, text, rects, match_type) ==
    [k \in 1..Min(1, Len(rects)) |->
        [page |-> page_num, text |-> text, bbox |-> rects[k], match_type |-> match_type]]

\* for rect in rects: matches.append({...})
MatchRecords(page_num, text, rects, match_type) ==
    [k \in 1..Len(rects) |->
        [page |-> page_num, text |-> text, bbox |-> rects[k], match_type |-> match_type]]

\* the records of the rectangles page.search_for(text) has just returned
AppendMatches(s, h, page_num, text, match_type) ==
    IF s.exc # "" THEN s
    ELSE [s EXCEPT !.loc = @ \o MatchRecords(page_num, text, RectsOf(s, h, page_num, text),
                                             match_type)]

\* a search that leaves a mark on the page it has searched
SearchLiteralAndMark(s, h, page_num, text, match_type) ==
    AppendMatches(AddRedactAnnot(SearchFor(s, h, page_num, text), h, page_num,
                                 CellRect(1), <<>>, <<0, 0, 0>>),
                  h, page_num, text, match_type)

\* rects = page.search_for(text); for rect in rects: matches.append({...})
SearchLiteral(s, h, page_num, text, match_type) ==
    AppendMatches(SearchFor(s, h, page_num, text), h, page_num, text, match_type)

\* for match in regex_matches: rects = page.search_for(match.group()) ...
RECURSIVE SearchRegexMatches(_, _, _, _)
SearchRegexMatches(s, h, page_num, groups) ==
    IF groups = <<>> \/ s.exc # "" THEN s
    ELSE SearchRegexMatches(SearchLiteral(s, h, page_num, Head(groups), "regex"),
                            h, page_num, Tail(groups))

\* regex_matches = re.finditer(search_string, text, flags) on the page's text
RegexGroups(s, h, page_num, search_string, case_sensitive) ==
    IF s.exc # "" THEN <<>>
    ELSE ReFindIter(TextOf(s, h, page_num), search_string, ~case_sensitive, 1)

SearchRegex(s, h, page_num, search_string, case_sensitive) ==
    SearchRegexMatches(s, h, page_num,
                       RegexGroups(s, h, page_num, search_string, case_sensitive))

\* the body of the loop over pages_to_search; the flags computed from
\* case_sensitive reach re.finditer only
SearchPage(s, h, page_num, search_string, case_sensitive, use_regex) ==
    IF use_regex
    THEN SearchRegex(GetText(LoadPage(s, h, page_num), h, page_num),
                     h, page_num, search_string, case_sensitive)
    ELSE SearchLiteral(LoadPage(s, h, page_num), h, page_num, search_string, "exact")

RECURSIVE SearchPages(_, _, _, _, _, _)
SearchPages(s, h, pages, search_string, case_sensitive, use_regex) ==
    IF pages = <<>> \/ s.exc # "" THEN s
    ELSE SearchPages(SearchPage(s, h, Head(pages), search_string, case_sensitive, use_regex),
                     h, Tail(pages), search_string, case_sensitive, use_regex)

\* matches = []; pages_to_search = [page_number] if page_number is not None
\* else range(len(doc)); the loop over them
SearchAll(s, doc, search_string, case_sensitive, use_regex, page_number) ==
    SearchPages([s EXCEPT !.loc = <<>>], doc,
                IF page_number # NoPage THEN page_number ELSE Range(PageCount(s, doc)),
                search_string, case_sensitive, use_regex)

SearchResult(s, search_string) ==
    Outcome(s, [ kind |-> "ok", search_string |-> search_string,
                 total_matches |-> Len(s.loc), matches |-> s.loc ])

\* the statements both search tools share, from the open document on
SearchBody(s, doc, search_string, case_sensitive, use_regex, page_number) ==
    SearchResult(
        Close(SearchAll(s, doc, search_string, case_sensitive, use_regex, page_number),
              doc),
        search_string)

search_text_in_pdf(file, search_string, case_sensitive, use_regex, page_number, fault) ==
    SearchBody(Open(Begin(fault), file), 1,
               search_string, case_sensitive, use_regex, page_number)

search_text_in_pdf_base64(data, search_string, case_sensitive, use_regex, page_number, fault) ==
    SearchBody(Open(B64Decode(Begin(fault), data), BytesOf(data)), 1,
               search_string, case_sensitive, use_regex, page_number)

-----------------------------------------------------------------------------
(* redact_text_by_search / redact_text_by_search_base64 *)

\* a count that leaves the total of the call alone
CountOnPageOnly(s) ==
    IF s.exc # "" THEN s ELSE [s EXCEPT !.loc.page_redactions = @ + 1]

\* page_redactions += 1; total_redactions += 1
CountRedaction(s) ==
    IF s.exc # "" THEN s
    ELSE [s EXCEPT !.loc.page_redactions = @ + 1, !.loc.total_redactions = @ + 1]

\* for rect in rects: page.add_redact_annot(...); the two counters go up
RECURSIVE StageRects(_, _, _, _, _, _)
StageRects(s, h, page_num, rects, overlay_text, fill_color) ==
    IF rects = <<>> \/ s.exc # "" THEN s
    ELSE StageRects(
             CountRedaction(AddRedactAnnot(s, h, page_num, Head(rects), overlay_text,
                                           fill_color)),
             h, page_num, Tail(rects), overlay_text, fill_color)

\* a staging that commits the marks of each pattern as soon as they are staged
StagePatternAndCommit(s, h, page_num, search_string, overlay_text, fill_color) ==
    IF RectsOf(s, h, page_num, search_string) = <<>> THEN s
    ELSE ApplyRedactions(
             StageRects(s, h, page_num, RectsOf(s, h, page_num, search_string),
                        overlay_text, fill_color),
             h, page_num, FALSE)

\* the marks of the rectangles page.search_for(search_string) has just returned
StagePattern(s, h, page_num, search_string, overlay_text, fill_color) ==
    StageRects(s, h, page_num, RectsOf(s, h, page_num, search_string),
               overlay_text, fill_color)

\* for search_string in search_strings: rects = page.search_for(search_string) ...
RECURSIVE StagePatterns(_, _, _, _, _, _)
StagePatterns(s, h, page_num, search_strings, overlay_text, fill_color) ==
    IF search_strings = <<>> \/ s.exc # "" THEN s
    ELSE StagePatterns(
             StagePattern(SearchFor(s, h, page_num, Head(search_strings)),
                          h, page_num, Head(search_strings), overlay_text, fill_color),
             h, page_num, Tail(search_strings), overlay_text, fill_color)

\* redaction_summary.append({"page": page_num, "redactions": page_redactions})
SummarizePage(s, page_num) ==
    IF s.exc # "" THEN s
    ELSE [s EXCEPT !.loc.summary =
             Append(@, [page |-> page_num, redactions |-> s.loc.page_redactions])]

\* a commit that writes the document out as soon as the page is committed
CommitPageAndSave(s, h, page_num) ==
    IF s.exc = "" /\ s.loc.page_redactions > 0
    THEN Save(SummarizePage(ApplyRedactions(s, h, page_num, FALSE), page_num), h, FALSE)
    ELSE s

\* if page_redactions > 0: page.apply_redactions(); redaction_summary.append
CommitPage(s, h, page_num) ==
    IF s.exc = "" /\ s.loc.page_redactions > 0
    THEN SummarizePage(ApplyRedactions(s, h, page_num, FALSE), page_num)
    ELSE s

\* the body of the loop over range(len(doc))
RedactPage(s, h, page_num, search_strings, overlay_text, fill_color) ==
    CommitPage(StagePatterns([LoadPage(s, h, page_num) EXCEPT !.loc.page_redactions = 0],
                             h, page_num, search_strings, overlay_text, fill_color),
               h, page_num)

RECURSIVE RedactPages(_, _, _, _, _, _)
RedactPages(s, h, pages, search_strings, overlay_text, fill_color) ==
    IF pages = <<>> \/ s.exc # "" THEN s
    ELSE RedactPages(RedactPage(s, h, Head(pages), search_strings, overlay_text, fill_color),
                     h, Tail(pages), search_strings, overlay_text, fill_color)

\* total_redactions = 0; redaction_summary = []
BeginRedaction(s) ==
    [s EXCEPT !.loc = [total_redactions |-> 0, summary |-> <<>>, page_redactions |-> 0]]

\* the statements both tools share, from the open document to the last commit:
\* total_redactions = 0; redaction_summary = []; for page_num in range(len(doc))
RedactSearchBody(s, doc, search_strings, overlay_text, fill_color) ==
    RedactPages(BeginRedaction(s), doc, Range(PageCount(s, doc)),
                search_strings, overlay_text, fill_color)

\* how a redacting tool returns the document: the path it wrote
\* ("output_file"), or the bytes it wrote, encoded ("redacted_pdf")
Delivery(s, family) ==
    IF family = "path" THEN [output_file |-> "output_path"]
    ELSE [redacted_pdf |-> B64Encode(s.out)]

\* result = {..., "total_redactions": ..., "pages_modified": ..., "summary": ...}
RedactSearchResult(s, family, search_strings) ==
    Outcome(s, IF s.exc # "" THEN NoResult
               ELSE Delivery(s, family)
                        @@ [ kind |-> "ok", total_redactions |-> s.loc.total_redactions,
                             pages_modified |-> Len(s.loc.summary),
                             summary |-> s.loc.summary,
                             search_strings |-> search_strings ])

redact_text_by_search(file, same_file, search_strings, fill_color, overlay_text, fault) ==
    RedactSearchResult(
        Close(Save(RedactSearchBody(Open(Begin(fault), file), 1,
                                    search_strings, overlay_text, fill_color),
                   1, same_file),
              1),
        "path", search_strings)

redact_text_by_search_base64(data, search_strings, fill_color, overlay_text, fault) ==
    RedactSearchResult(
        Close(Save(RedactSearchBody(Open(B64Decode(Begin(fault), data), BytesOf(data)),
                                    1, search_strings, overlay_text, fill_color),
                   1, FALSE),
              1),
        "base64", search_strings)

-----------------------------------------------------------------------------
(* extract_text_from_pdf / extract_text_from_pdf_base64 *)

\* an optional value: Python's None, or a value
None == [some |-> FALSE]

Some(v) == [some |-> TRUE, v |-> v]

FormatPool == { "text", "json", "blocks" }

\* len(text.split()): the maximal runs of non-blank characters
Words(text) ==
    Cardinality({ i \in 1..Len(text) :
                    text[i] # Blank /\ (i = 1 \/ text[i - 1] = Blank) })

\* page.get_text("dict")["blocks"]: the text block, and one block per image
\* that carries the image's bytes
Blocks(page) ==
    <<[type |-> 0, text |-> page.text]>>
        \o [k \in 1..Len(page.images) |-> [type |-> 1, image |-> "bytes"]]

\* json.dumps refuses a value that holds bytes
Dumpable(pages) ==
    \A k \in 1..Len(pages) : \A b \in 1..Len(pages[k].blocks) : pages[k].blocks[b].type = 0

\* what one page adds to the result in each of the three formats
AppendExtract(s, h, page_num, format) ==
    IF s.exc # "" THEN s
    ELSE IF format = "json"
    THEN [s EXCEPT !.loc = Append(@, [ page_number |-> page_num,
                                       text |-> TextOf(s, h, page_num),
                                       word_count |-> Words(TextOf(s, h, page_num)) ])]
    ELSE IF format = "blocks"
    THEN [s EXCEPT !.loc = Append(@, [ page_number |-> page_num,
                                       blocks |-> Blocks(PageAt(s, h, page_num)) ])]
    ELSE [s EXCEPT !.loc = Append(@, [ header |-> page_num + 1,
                                       text |-> TextOf(s, h, page_num) ])]

\* the body of the loop over pages_to_process; the json format reads the
\* page's text twice, the other two once
ExtractPage(s, h, page_num, format) ==
    AppendExtract(IF format = "json"
                  THEN GetText(GetText(LoadPage(s, h, page_num), h, page_num), h, page_num)
                  ELSE GetText(LoadPage(s, h, page_num), h, page_num),
                  h, page_num, format)

RECURSIVE ExtractPages(_, _, _, _)
ExtractPages(s, h, pages, format) ==
    IF pages = <<>> \/ s.exc # "" THEN s
    ELSE ExtractPages(ExtractPage(s, h, Head(pages), format), h, Tail(pages), format)

\* pages_to_process = [page_number] if page_number is not None else range(total_pages)
ExtractAll(s, doc, page_number, format) ==
    ExtractPages([s EXCEPT !.loc = <<>>], doc,
                 IF page_number # NoPage THEN page_number ELSE Range(PageCount(s, doc)),
                 format)

\* return json.dumps(result): the blocks of a page with an image hold bytes
DumpResult(s, format) ==
    IF s.exc = "" /\ format = "blocks" /\ ~Dumpable(s.loc)
    THEN Raise(s, "Object of type bytes is not JSON serializable")
    ELSE s

ExtractResult(s, doc, format) ==
    Outcome(s, [ kind |-> "ok", format |-> format, total_pages |-> PageCount(s, doc),
                 pages |-> s.loc ])

\* the statements both extraction tools share, from the open document on;
\* if page_number < 0 or page_number >= total_pages: doc.close(), and the
\* message of the error is then built from len(doc)
ExtractBody(s, doc, page_number, format) ==
    IF s.exc = "" /\ page_number # NoPage
          /\ (page_number[1] < 0 \/ page_number[1] >= PageCount(s, doc))
    THEN Outcome(LenDoc(Close(s, doc), doc), ErrorResult("Invalid page number"))
    ELSE ExtractResult(DumpResult(Close(ExtractAll(s, doc, page_number, format), doc),
                                  format),
                       doc, format)

extract_text_from_pdf(file, page_number, format, fault) ==
    ExtractBody(Open(Begin(fault), file), 1, page_number, format)

extract_text_from_pdf_base64(data, page_number, format, fault) ==
    ExtractBody(Open(B64Decode(Begin(fault), data), BytesOf(data)), 1,
                page_number, format)

-----------------------------------------------------------------------------
(* redact_by_coordinates / redact_by_coordinates_base64 *)

\* the components of a bbox: numbers, or something that is not a number
Num(n) == [num |-> TRUE, v |-> n]

NotANumber == [num |-> FALSE]

BBox(x0, y0, x1, y1) == Some(<<Num(x0), Num(y0), Num(x1), Num(y1)>>)

\* a directive: the keys "page", "bbox" and "text", each of which may be absent
Directive(page, bbox, text) == [page |-> page, bbox |-> bbox, text |-> text]

ValidDirective == Directive(<<0>>, BBox(0, 0, 1, 1), None)

TextDirective == Directive(NoPage, BBox(1, 0, 3, 1), Some(<<"b">>))

PageDirective(p) == Directive(<<p>>, BBox(0, 0, 1, 1), None)

NoBBoxDirective == Directive(<<0>>, None, None)

EmptyBBoxDirective == Directive(<<0>>, Some(<<>>), None)

ShortBBoxDirective == Directive(<<0>>, Some(<<Num(0), Num(0), Num(1)>>), None)

NonNumericDirective == Directive(<<0>>, Some(<<Num(0), Num(0), NotANumber, Num(1)>>), None)

DirectiveLists ==
    { <<>>, <<ValidDirective>>, <<TextDirective>>, <<TextDirective, ValidDirective>>,
      <<NoBBoxDirective, ValidDirective>>, <<EmptyBBoxDirective, ValidDirective>>,
      <<ValidDirective, ShortBBoxDirective>>, <<NonNumericDirective, ValidDirective>>,
      <<ValidDirective, NonNumericDirective>>, <<NonNumericDirective>> }
        \cup { <<PageDirective(p)>> : p \in -1..MaxPages }
        \cup { <<PageDirective(p), ValidDirective>> : p \in {-1, MaxPages} }
        \cup { <<ValidDirective, PageDirective(p)>> : p \in 1..MaxPages }

\* redaction.get("page", 0)
GetPage(redaction) == IF redaction.page = NoPage THEN 0 ELSE redaction.page[1]

\* redaction.get("text", overlay_text)
GetOverlay(redaction, overlay_text) ==
    IF redaction.text.some THEN redaction.text.v ELSE overlay_text

\* not bbox or len(bbox) != 4
BadBBox(bbox) == ~bbox.some \/ Len(bbox.v) = 0 \/ Len(bbox.v) # 4

\* pymupdf.Rect(bbox) accepts four numbers
Numeric(bbox) == \A k \in 1..Len(bbox.v) : bbox.v[k].num

ToRect(bbox) ==
    IF Numeric(bbox) THEN Rect(bbox.v[1].v, bbox.v[2].v, bbox.v[3].v, bbox.v[4].v)
    ELSE Rect(0, 0, 0, 0)

\* rect = pymupdf.Rect(bbox) raises on a component that is not a number
MakeRect(s, bbox) ==
    IF s.exc = "" /\ ~Numeric(bbox) THEN Raise(s, "Rect: bad args") ELSE s

\* results.append({...})
AppendItem(s, item) == IF s.exc # "" THEN s ELSE [s EXCEPT !.loc = Append(@, item)]

\* a staging that commits the page as soon as the mark is on it
StageDirectiveAndCommit(s, h, page_num, bbox, redact_text, fill_color) ==
    ApplyRedactions(
        AppendItem(AddRedactAnnot(MakeRect(LoadPage(s, h, page_num), bbox), h, page_num,
                                  ToRect(bbox), redact_text, fill_color),
                   [status |-> "applied", page |-> page_num, bbox |-> bbox]),
        h, page_num, FALSE)

\* page = doc[page_num]; rect = pymupdf.Rect(bbox); page.add_redact_annot(...);
\* results.append({"page": ..., "bbox": ..., "status": "applied"})
StageDirective(s, h, page_num, bbox, redact_text, fill_color) ==
    AppendItem(AddRedactAnnot(MakeRect(LoadPage(s, h, page_num), bbox), h, page_num,
                              ToRect(bbox), redact_text, fill_color),
               [status |-> "applied", page |-> page_num, bbox |-> bbox])

\* the page check without its lower bound: page_num >= len(doc) only
CoordinateDirectiveUpperOnly(s, h, redaction, fill_color, overlay_text) ==
    IF s.exc # "" THEN s
    ELSE IF GetPage(redaction) >= PageCount(s, h)
    THEN AppendItem(s, [status |-> "error", message |-> "Invalid page number"])
    ELSE IF BadBBox(redaction.bbox)
    THEN AppendItem(s, [status |-> "error", message |-> "Invalid bbox format"])
    ELSE StageDirective(s, h, GetPage(redaction), redaction.bbox,
                        GetOverlay(redaction, overlay_text), fill_color)

\* the body of the loop over redactions: the two checks of a directive are
\* made before any engine operation on it
CoordinateDirective(s, h, redaction, fill_color, overlay_text) ==
    IF s.exc # "" THEN s
    ELSE IF GetPage(redaction) < 0 \/ GetPage(redaction) >= PageCount(s, h)
    THEN AppendItem(s, [status |-> "error", message |-> "Invalid page number"])
    ELSE IF BadBBox(redaction.bbox)
    THEN AppendItem(s, [status |-> "error", message |-> "Invalid bbox format"])
    ELSE StageDirective(s, h, GetPage(redaction), redaction.bbox,
                        GetOverlay(redaction, overlay_text), fill_color)

RECURSIVE CoordinateDirectives(_, _, _, _, _)
CoordinateDirectives(s, h, redactions, fill_color, overlay_text) ==
    IF redactions = <<>> \/ s.exc # "" THEN s
    ELSE CoordinateDirectives(
             CoordinateDirective(s, h, Head(redactions), fill_color, overlay_text),
             h, Tail(redactions), fill_color, overlay_text)

\* for page in doc: page.apply_redactions()
RECURSIVE ApplyAllPages(_, _, _)
ApplyAllPages(s, h, pages) ==
    IF pages = <<>> \/ s.exc # "" THEN s
    ELSE ApplyAllPages(ApplyRedactions(LoadPage(s, h, Head(pages)), h, Head(pages), FALSE),
                       h, Tail(pages))

CommitAllPages(s, doc) == ApplyAllPages(s, doc, Range(PageCount(s, doc)))

\* the statements both tools share, from the open document to the last commit
CoordinatesBody(s, doc, redactions, fill_color, overlay_text) ==
    CommitAllPages(
        CoordinateDirectives([s EXCEPT !.loc = <<>>], doc, redactions,
                             fill_color, overlay_text),
        doc)

\* result = {..., "total_redactions": len([r for r in applied_redactions if
\* r.get("status") == "applied"]), "redactions": applied_redactions}
CoordinatesResult(s, family) ==
    Outcome(s, IF s.exc # "" THEN NoResult
               ELSE Delivery(s, family)
                        @@ [ kind |-> "ok",
                             total_redactions |->
                                 Cardinality({ k \in 1..Len(s.loc) :
                                                 s.loc[k].status = "applied" }),
                             redactions |-> s.loc ])

redact_by_coordinates(file, same_file, redactions, fill_color, overlay_text, fault) ==
    CoordinatesResult(
        Close(Save(CoordinatesBody(Open(Begin(fault), file), 1, redactions,
                                   fill_color, overlay_text),
                   1, same_file),
              1),
        "path")

redact_by_coordinates_base64(data, redactions, fill_color, overlay_text, fault) ==
    CoordinatesResult(
        Close(Save(CoordinatesBody(Open(B64Decode(Begin(fault), data), BytesOf(data)),
                                   1, redactions, fill_color, overlay_text),
                   1, FALSE),
              1),
        "base64")

-----------------------------------------------------------------------------
(* redact_images_in_pdf / redact_images_in_pdf_base64 *)

PageListPool == { None, Some(<<0>>), Some(<<1, 0>>), Some(<<-1, MaxPages>>), Some(<<>>) }

\* page.get_images()
GetImages(s, h, i) == IF s.exc # "" THEN s ELSE Step(s, Op("get_images", h, i))

\* page.get_image_bbox(img[7])
GetImageBBox(s, h, i) == IF s.exc # "" THEN s ELSE Step(s, Op("get_image_bbox", h, i))

\* page_images += 1; total_images_redacted += 1
CountImage(s) ==
    IF s.exc # "" THEN s
    ELSE [s EXCEPT !.loc.page_images = @ + 1, !.loc.total_images_redacted = @ + 1]

\* a staging that marks every image, whatever its box
StageEveryImage(s, h, page_num, im, overlay_text, fill_color) ==
    IF s.exc # "" THEN s
    ELSE CountImage(AddRedactAnnot(s, h, page_num, im.bbox, overlay_text, fill_color))

\* if bbox.is_infinite: continue; page.add_redact_annot(bbox, ...)
StageImage(s, h, page_num, im, overlay_text, fill_color) ==
    IF s.exc # "" \/ im.infinite THEN s
    ELSE CountImage(AddRedactAnnot(s, h, page_num, im.bbox, overlay_text, fill_color))

\* for img_index, img in enumerate(images): ...
RECURSIVE StageImages(_, _, _, _, _, _)
StageImages(s, h, page_num, images, overlay_text, fill_color) ==
    IF images = <<>> \/ s.exc # "" THEN s
    ELSE StageImages(StageImage(GetImageBBox(s, h, page_num), h, page_num, Head(images),
                                overlay_text, fill_color),
                     h, page_num, Tail(images), overlay_text, fill_color)

\* the list page.get_images() has just returned
ImagesOf(s, h, page_num) == IF s.exc # "" THEN <<>> ELSE PageAt(s, h, page_num).images

\* page_images = 0; for img_index, img in enumerate(images): ...
StagePageImages(s, h, page_num, overlay_text, fill_color) ==
    StageImages([s EXCEPT !.loc.page_images = 0], h, page_num, ImagesOf(s, h, page_num),
                overlay_text, fill_color)

\* summary.append({"page": page_num, "images_redacted": page_images})
SummarizeImages(s, page_num) ==
    IF s.exc # "" THEN s
    ELSE [s EXCEPT !.loc.summary =
             Append(@, [page |-> page_num, images_redacted |-> s.loc.page_images])]

\* if page_images > 0: page.apply_redactions(images=PDF_REDACT_IMAGE_REMOVE) ...
CommitImages(s, h, page_num) ==
    IF s.exc = "" /\ s.loc.page_images > 0
    THEN SummarizeImages(ApplyRedactions(s, h, page_num, TRUE), page_num)
    ELSE s

\* the body of the loop over pages_to_process;
\* if page_num < 0 or page_num >= len(doc): continue
RedactImagesPage(s, h, page_num, overlay_text, fill_color) ==
    IF s.exc # "" \/ page_num < 0 \/ page_num >= PageCount(s, h) THEN s
    ELSE CommitImages(
             StagePageImages(GetImages(LoadPage(s, h, page_num), h, page_num),
                             h, page_num, overlay_text, fill_color),
             h, page_num)

RECURSIVE RedactImagesPages(_, _, _, _, _)
RedactImagesPages(s, h, pages, overlay_text, fill_color) ==
    IF pages = <<>> \/ s.exc # "" THEN s
    ELSE RedactImagesPages(RedactImagesPage(s, h, Head(pages), overlay_text, fill_color),
                           h, Tail(pages), overlay_text, fill_color)

\* the statements both tools share, from the open document to the last commit:
\* total_images_redacted = 0; summary = []; for page_num in pages_to_process
RedactImagesBody(s, doc, page_numbers, fill_color, overlay_text) ==
    RedactImagesPages([s EXCEPT !.loc = [total_images_redacted |-> 0, summary |-> <<>>,
                                         page_images |-> 0]],
                      doc,
                      IF page_numbers.some THEN page_numbers.v
                      ELSE Range(PageCount(s, doc)),
                      overlay_text, fill_color)

\* result = {..., "total_images_redacted": ..., "pages_processed": ..., "summary": ...}
RedactImagesResult(s, family) ==
    Outcome(s, IF s.exc # "" THEN NoResult
               ELSE Delivery(s, family)
                        @@ [ kind |-> "ok",
                             total_images_redacted |-> s.loc.total_images_redacted,
                             pages_processed |-> Len(s.loc.summary),
                             summary |-> s.loc.summary ])

redact_images_in_pdf(file, same_file, page_numbers, fill_color, overlay_text, fault) ==
    RedactImagesResult(
        Close(Save(RedactImagesBody(Open(Begin(fault), file), 1, page_numbers,
                                    fill_color, overlay_text),
                   1, same_file),
              1),
        "path")

redact_images_in_pdf_base64(data, page_numbers, fill_color, overlay_text, fault) ==
    RedactImagesResult(
        Close(Save(RedactImagesBody(Open(B64Decode(Begin(fault), data), BytesOf(data)),
                                    1, page_numbers, fill_color, overlay_text),
                   1, FALSE),
              1),
        "base64")

-----------------------------------------------------------------------------
(* verify_redactions / verify_redactions_base64 *)

\* if rects: found_in_redacted = True; pages_found.append(page_num)
NoteFound(s, h, page_num, search_str) ==
    IF s.exc # "" \/ RectsOf(s, h, page_num, search_str) = <<>> THEN s
    ELSE [s EXCEPT !.loc.pages_found = Append(@, page_num)]

\* for page_num in range(len(redact_doc)): rects = page.search_for(search_str) ...
RECURSIVE FindOnPages(_, _, _, _)
FindOnPages(s, h, pages, search_str) ==
    IF pages = <<>> \/ s.exc # "" THEN s
    ELSE FindOnPages(
             NoteFound(SearchFor(LoadPage(s, h, Head(pages)), h, Head(pages), search_str),
                       h, Head(pages), search_str),
             h, Tail(pages), search_str)

\* verification["string_checks"].append({...}); found_in_redacted is set
\* exactly when pages_found is not empty
AppendCheck(s, search_str) ==
    IF s.exc # "" THEN s
    ELSE [s EXCEPT !.loc.string_checks =
             Append(@, [ search_string |-> search_str,
                         found_in_redacted |-> s.loc.pages_found # <<>>,
                         pages_found |-> s.loc.pages_found,
                         status |-> IF s.loc.pages_found # <<>> THEN "FAIL" ELSE "PASS" ])]

\* found_in_redacted = False; pages_found = []; the loop over the pages; the append
CheckString(s, h, search_str) ==
    AppendCheck(FindOnPages([s EXCEPT !.loc.pages_found = <<>>], h,
                            Range(PageCount(s, h)), search_str),
                search_str)

\* for search_str in search_strings: ...
RECURSIVE StringChecks(_, _, _)
StringChecks(s, h, search_strings) ==
    IF search_strings = <<>> \/ s.exc # "" THEN s
    ELSE StringChecks(CheckString(s, h, Head(search_strings)), h, Tail(search_strings))

\* verification["text_comparison"].append({...})
ComparePage(s, orig_doc, redact_doc, page_num) ==
    IF s.exc # "" THEN s
    ELSE [s EXCEPT !.loc.text_comparison =
             Append(@, [ page |-> page_num,
                         original_word_count |-> Words(TextOf(s, orig_doc, page_num)),
                         redacted_word_count |-> Words(TextOf(s, redact_doc, page_num)),
                         words_removed |-> Words(TextOf(s, orig_doc, page_num))
                                               - Words(TextOf(s, redact_doc, page_num)),
                         text_modified |-> TextOf(s, orig_doc, page_num)
                                               # TextOf(s, redact_doc, page_num) ])]

\* for page_num in range(min(len(orig_doc), len(redact_doc))): ...
RECURSIVE TextComparison(_, _, _, _)
TextComparison(s, orig_doc, redact_doc, pages) ==
    IF pages = <<>> \/ s.exc # "" THEN s
    ELSE TextComparison(
             ComparePage(
                 GetText(LoadPage(GetText(LoadPage(s, orig_doc, Head(pages)),
                                          orig_doc, Head(pages)),
                                  redact_doc, Head(pages)),
                         redact_doc, Head(pages)),
                 orig_doc, redact_doc, Head(pages)),
             orig_doc, redact_doc, Tail(pages))

\* any() in the place of all()
AnyCheckPassed(string_checks) ==
    \E k \in 1..Len(string_checks) : string_checks[k].status = "PASS"

\* all(check["status"] == "PASS" for check in verification["string_checks"])
AllChecksPassed(string_checks) ==
    \A k \in 1..Len(string_checks) : string_checks[k].status = "PASS"

\* verification = {..., "string_checks": [], "text_comparison": []}
BeginVerification(s) ==
    [s EXCEPT !.loc = [string_checks |-> <<>>, text_comparison |-> <<>>,
                       pages_found |-> <<>>]]

\* if search_strings: None and the empty list are skipped alike
CheckStrings(s, redact_doc, search_strings) ==
    IF search_strings.some /\ search_strings.v # <<>>
    THEN StringChecks(BeginVerification(s), redact_doc, search_strings.v)
    ELSE BeginVerification(s)

\* a comparison of the first page only
CompareFirstPageOnly(s, orig_doc, redact_doc) ==
    TextComparison(s, orig_doc, redact_doc,
                   Range(Min(1, Min(PageCount(s, orig_doc), PageCount(s, redact_doc)))))

\* a comparison over every page of the candidate
CompareEveryCandidatePage(s, orig_doc, redact_doc) ==
    TextComparison(s, orig_doc, redact_doc, Range(PageCount(s, redact_doc)))

\* for page_num in range(min(len(orig_doc), len(redact_doc))): ...
CompareTexts(s, orig_doc, redact_doc) ==
    TextComparison(s, orig_doc, redact_doc,
                   Range(Min(PageCount(s, orig_doc), PageCount(s, redact_doc))))

VerifyResult(s, orig_doc, redact_doc) ==
    Outcome(s, IF s.exc # "" THEN NoResult
               ELSE [ kind |-> "ok",
                      original_pages |-> PageCount(s, orig_doc),
                      redacted_pages |-> PageCount(s, redact_doc),
                      pages_match |-> PageCount(s, orig_doc) = PageCount(s, redact_doc),
                      string_checks |-> s.loc.string_checks,
                      text_comparison |-> s.loc.text_comparison,
                      overall_verdict |-> IF AllChecksPassed(s.loc.string_checks)
                                          THEN "PASS" ELSE "FAIL" ])

\* the statements both tools share, once orig_doc and redact_doc are bound
VerifyBody(s, orig_doc, redact_doc, search_strings) ==
    VerifyResult(
        Close(Close(CompareTexts(CheckStrings(s, redact_doc, search_strings),
                                 orig_doc, redact_doc),
                    orig_doc),
              redact_doc),
        orig_doc, redact_doc)

\* orig_doc is opened once, redact_doc twice: the name is bound to the second
verify_redactions(original, redacted, search_strings, fault) ==
    VerifyBody(Open(Open(Open(Begin(fault), original), redacted), redacted),
               1, 3, search_strings)

verify_redactions_base64(original_data, redacted_data, search_strings, fault) ==
    VerifyBody(Open(Open(B64Decode(B64Decode(Begin(fault), original_data), redacted_data),
                         BytesOf(original_data)),
                    BytesOf(redacted_data)),
               1, 2, search_strings)

-----------------------------------------------------------------------------
(* get_pdf_info / get_pdf_info_base64 *)

\* page.get_links()
GetLinks(s, h, i) == IF s.exc # "" THEN s ELSE Step(s, Op("get_links", h, i))

\* page_info = {...}; info["page_info"].append(page_info)
AppendPageInfo(s, h, p) ==
    IF s.exc # "" THEN s
    ELSE [s EXCEPT !.loc = Append(@, [ page_number |-> p,
                                       width |-> Len(TextOf(s, h, p)),
                                       height |-> 1,
                                       rotation |-> 0,
                                       image_count |-> Len(PageAt(s, h, p).images),
                                       link_count |-> 0 ])]

\* for page_num in range(len(doc)): page = doc[page_num] ...
RECURSIVE PageInfos(_, _, _)
PageInfos(s, h, pages) ==
    IF pages = <<>> \/ s.exc # "" THEN s
    ELSE PageInfos(
             AppendPageInfo(
                 GetLinks(GetImages(LoadPage(s, h, Head(pages)), h, Head(pages)),
                          h, Head(pages)),
                 h, Head(pages)),
             h, Tail(pages))

InfoResult(s, doc) ==
    Outcome(s, IF s.exc # "" THEN NoResult
               ELSE [ kind |-> "ok", pages |-> PageCount(s, doc),
                      is_encrypted |-> FALSE, page_info |-> s.loc ])

\* the statements both tools share, from the open document on
InfoBody(s, doc) ==
    InfoResult(Close(PageInfos([s EXCEPT !.loc = <<>>], doc, Range(PageCount(s, doc))),
                     doc),
               doc)

get_pdf_info(file, fault) == InfoBody(Open(Begin(fault), file), 1)

get_pdf_info_base64(data, fault) ==
    InfoBody(Open(B64Decode(Begin(fault), data), BytesOf(data)), 1)

-----------------------------------------------------------------------------
(* Inputs of verify and of the coordinate and image tools *)

DefaultOverlays == { <<>>, <<"a">> }

OptionalPatternLists == { None } \cup { Some(l) : l \in PatternLists }

Black == <<0, 0, 0>>

OnePageFile == PdfFile([pages |-> <<Page(<<"a", "b", "a">>, <<>>)>>])

TwoPageFile ==
    PdfFile([pages |-> << Page(<<"a", "b", "a">>, <<>>),
                          Page(<<"b", "A", "b">>,
                               <<Image(FALSE, Rect(0, 0, 2, 1)), Image(TRUE, Rect(0, 0, 0, 0))>>) >>])

OriginalPool == { OnePageFile, TwoPageFile, GarbageFile, MissingFile }

\* the candidates of a verification: any file, and the outputs of redacting "a"
CandidatePool ==
    FilePool \cup { redact_text_by_search(PdfFile(d), FALSE, <<<<"a">>>>, Black, <<>>, NoFault).out :
                      d \in DocPool }

-----------------------------------------------------------------------------
(* Paths and the files behind them *)

\* a path as the caller writes it: relative, or absolute below a directory
RelativePath(name) == [abs |-> FALSE, dir |-> "", name |-> name]

AbsolutePath(dir, name) == [abs |-> TRUE, dir |-> dir, name |-> name]

\* PDF_BASE_DIR as main leaves it: not set, or the directory of --pdf-dir
NoBaseDir == ""

BaseDirs == { NoBaseDir, "pdfs" }

\* resolve_pdf_path: a relative path is taken below PDF_BASE_DIR when it is set
resolve_pdf_path(base, path) ==
    IF base # NoBaseDir /\ ~path.abs THEN AbsolutePath(base, path.name) ELSE path

PathPool ==
    { RelativePath(n) : n \in { "p1", "p2", "q1", "q2" } }
        \cup { AbsolutePath("pdfs", n) : n \in { "p1", "p2", "q1", "q2" } }

\* the file a path names; a path that names nothing is a missing file
FileAt(d, path) == IF path \in DOMAIN d THEN d[path] ELSE MissingFile

\* doc.save(output_path) as the file system sees it
WriteFile(d, path, file) ==
    [q \in DOMAIN d \cup { path } |-> IF q = path THEN file ELSE d[q]]

\* the files of the server's machine before any call: two documents, in the
\* working directory and below the base directory
DiskInit ==
    [q \in PathPool |->
        IF q.name = "p1" THEN TwoPageFile
        ELSE IF q.name = "p2" THEN PdfFile([pages |-> <<Page(<<"b", "A", "b">>, <<>>)>>])
        ELSE MissingFile]

\* no call is being served by a worker thread
NoThreads == [base |-> NoBaseDir, c |-> <<>>, pc |-> <<>>, work |-> <<>>, ret |-> <<>>]

-----------------------------------------------------------------------------
(* The request-scoped tools as actions *)

Init ==
    /\ call = [tool |-> "none"]
    /\ ret = NoResult
    /\ log = <<>>
    /\ out = MissingFile
    /\ handles = <<>>
    /\ crashed = FALSE
    /\ store = <<>>
    /\ open = {}
    /\ opened = 0
    /\ disk = DiskInit
    /\ threads = NoThreads

Idle == [tool |-> "none"]

\* the server takes the next call when it has answered the last one, as long
\* as no exception escaped a call
Ready == call = Idle /\ ~crashed

\* one tool call; a fault is an input only if the call reaches the operation
\* it names
Apply(c, o) ==
    /\ c.fault = NoFault \/ o.faulted
    /\ call' = c
    /\ ret' = o.ret
    /\ log' = o.log
    /\ out' = o.out
    /\ handles' = o.handles
    /\ crashed' = o.crashed
    /\ UNCHANGED <<store, open, opened, disk, threads>>

\* every tool is called on documents drawn from files (paths) or from their
\* base64 encodings, with a fault drawn from faults
B64Of(files) == { B64Encode(f) : f \in files \ { MissingFile } } \cup { BadB64 }

SearchCall(files, faults) ==
    /\ Ready
    /\ \E file \in files, ss \in PatternPool, cs \in BOOLEAN, rx \in BOOLEAN,
          pn \in PageArgs, f \in faults :
        Apply([ tool |-> "search_text", family |-> "path", file |-> file,
                search_string |-> ss, case_sensitive |-> cs, use_regex |-> rx,
                page_number |-> pn, fault |-> f ],
              search_text_in_pdf(file, ss, cs, rx, pn, f))

SearchBase64Call(files, faults) ==
    /\ Ready
    /\ \E data \in B64Of(files), ss \in PatternPool, cs \in BOOLEAN, rx \in BOOLEAN,
          pn \in PageArgs, f \in faults :
        Apply([ tool |-> "search_text", family |-> "base64", data |-> data,
                search_string |-> ss, case_sensitive |-> cs, use_regex |-> rx,
                page_number |-> pn, fault |-> f ],
              search_text_in_pdf_base64(data, ss, cs, rx, pn, f))

\* case_sensitive is a parameter of both tools that their bodies never read
RedactSearchCall(files, faults) ==
    /\ Ready
    /\ \E file \in files, same \in BOOLEAN, pats \in PatternLists, fill \in FillPool,
          ov \in OverlayPool, cs \in BOOLEAN, f \in faults :
        Apply([ tool |-> "redact_search", family |-> "path", file |-> file,
                same_file |-> same, search_strings |-> pats, case_sensitive |-> cs,
                fill_color |-> fill, overlay_text |-> ov, fault |-> f ],
              redact_text_by_search(file, same, pats, fill, ov, f))

RedactSearchBase64Call(files, faults) ==
    /\ Ready
    /\ \E data \in B64Of(files), pats \in PatternLists, fill \in FillPool,
          ov \in OverlayPool, cs \in BOOLEAN, f \in faults :
        Apply([ tool |-> "redact_search", family |-> "base64", data |-> data,
                search_strings |-> pats, case_sensitive |-> cs, fill_color |-> fill,
                overlay_text |-> ov, fault |-> f ],
              redact_text_by_search_base64(data, pats, fill, ov, f))

ExtractCall(files, faults) ==
    /\ Ready
    /\ \E file \in files, pn \in PageArgs, fmt \in FormatPool, f \in faults :
        Apply([ tool |-> "extract_text", family |-> "path", file |-> file,
                page_number |-> pn, format |-> fmt, fault |-> f ],
              extract_text_from_pdf(file, pn, fmt, f))

ExtractBase64Call(files, faults) ==
    /\ Ready
    /\ \E data \in B64Of(files), pn \in PageArgs, fmt \in FormatPool, f \in faults :
        Apply([ tool |-> "extract_text", family |-> "base64", data |-> data,
                page_number |-> pn, format |-> fmt, fault |-> f ],
              extract_text_from_pdf_base64(data, pn, fmt, f))

CoordinatesCall(files, faults) ==
    /\ Ready
    /\ \E file \in files, same \in BOOLEAN, reds \in DirectiveLists,
          ov \in DefaultOverlays, f \in faults :
        Apply([ tool |-> "redact_coordinates", family |-> "path", file |-> file,
                same_file |-> same, redactions |-> reds, fill_color |-> Black,
                overlay_text |-> ov, fault |-> f ],
              redact_by_coordinates(file, same, reds, Black, ov, f))

CoordinatesBase64Call(files, faults) ==
    /\ Ready
    /\ \E data \in B64Of(files), reds \in DirectiveLists, ov \in DefaultOverlays,
          f \in faults :
        Apply([ tool |-> "redact_coordinates", family |-> "base64", data |-> data,
                redactions |-> reds, fill_color |-> Black,
                overlay_text |-> ov, fault |-> f ],
              redact_by_coordinates_base64(data, reds, Black, ov, f))

ImagesCall(files, faults) ==
    /\ Ready
    /\ \E file \in files, same \in BOOLEAN, pns \in PageListPool,
          ov \in DefaultOverlays, f \in faults :
        Apply([ tool |-> "redact_images", family |-> "path", file |-> file,
                same_file |-> same, page_numbers |-> pns, fill_color |-> Black,
                overlay_text |-> ov, fault |-> f ],
              redact_images_in_pdf(file, same, pns, Black, ov, f))

ImagesBase64Call(files, faults) ==
    /\ Ready
    /\ \E data \in B64Of(files), pns \in PageListPool, ov \in DefaultOverlays,
          f \in faults :
        Apply([ tool |-> "redact_images", family |-> "base64", data |-> data,
                page_numbers |-> pns, fill_color |-> Black,
                overlay_text |-> ov, fault |-> f ],
              redact_images_in_pdf_base64(data, pns, Black, ov, f))

VerifyCall(originals, candidates, faults) ==
    /\ Ready
    /\ \E redacted \in candidates, strs \in OptionalPatternLists, f \in faults :
        \E original \in originals \cup { redacted } :
            Apply([ tool |-> "verify", family |-> "path", original |-> original,
                    redacted |-> redacted, search_strings |-> strs, fault |-> f ],
                  verify_redactions(original, redacted, strs, f))

VerifyBase64Call(originals, candidates, faults) ==
    /\ Ready
    /\ \E redacted \in B64Of(candidates), strs \in OptionalPatternLists, f \in faults :
        \E original \in B64Of(originals) \cup { redacted } :
            Apply([ tool |-> "verify", family |-> "base64", original |-> original,
                    redacted |-> redacted, search_strings |-> strs, fault |-> f ],
                  verify_redactions_base64(original, redacted, strs, f))

InfoCall(files, faults) ==
    /\ Ready
    /\ \E file \in files, f \in faults :
        Apply([ tool |-> "get_info", family |-> "path", file |-> file, fault |-> f ],
              get_pdf_info(file, f))

InfoBase64Call(files, faults) ==
    /\ Ready
    /\ \E data \in B64Of(files), f \in faults :
        Apply([ tool |-> "get_info", family |-> "base64", data |-> data, fault |-> f ],
              get_pdf_info_base64(data, f))

\* the answer of a call is delivered and the server waits for the next call
Respond ==
    /\ call # Idle
    /\ ~crashed
    /\ call' = Idle
    /\ ret' = NoResult
    /\ log' = <<>>
    /\ out' = MissingFile
    /\ handles' = <<>>
    /\ UNCHANGED <<crashed, store, open, opened, disk, threads>>

-----------------------------------------------------------------------------
(* Spec: the fourteen tools on every document of the pool, the engine         *)
(* working (the only exceptions are those the inputs themselves cause)        *)

Healthy == { NoFault }

Next ==
    \/ Respond
    \/ SearchCall(FilePool, Healthy)
    \/ SearchBase64Call(FilePool, Healthy)
    \/ RedactSearchCall(FilePool, Healthy)
    \/ RedactSearchBase64Call(FilePool, Healthy)
    \/ ExtractCall(FilePool, Healthy)
    \/ ExtractBase64Call(FilePool, Healthy)
    \/ CoordinatesCall(FilePool, Healthy)
    \/ CoordinatesBase64Call(FilePool, Healthy)
    \/ ImagesCall(FilePool, Healthy)
    \/ ImagesBase64Call(FilePool, Healthy)
    \/ VerifyCall(OriginalPool, CandidatePool, Healthy)
    \/ VerifyBase64Call(OriginalPool, CandidatePool, Healthy)
    \/ InfoCall(FilePool, Healthy)
    \/ InfoBase64Call(FilePool, Healthy)

Spec == Init /\ [][Next]_vars

-----------------------------------------------------------------------------
(* SpecFaults: the fourteen tools on a two-page document, one engine          *)
(* operation of the call raising                                              *)

FaultFiles == { TwoPageFile }

Failing == Faults \ { NoFault }

NextFaults ==
    \/ Respond
    \/ SearchCall(FaultFiles, Failing)
    \/ SearchBase64Call(FaultFiles, Failing)
    \/ RedactSearchCall(FaultFiles, Failing)
    \/ RedactSearchBase64Call(FaultFiles, Failing)
    \/ ExtractCall(FaultFiles, Failing)
    \/ ExtractBase64Call(FaultFiles, Failing)
    \/ CoordinatesCall(FaultFiles, Failing)
    \/ CoordinatesBase64Call(FaultFiles, Failing)
    \/ ImagesCall(FaultFiles, Failing)
    \/ ImagesBase64Call(FaultFiles, Failing)
    \/ VerifyCall(FaultFiles, FaultFiles, Failing)
    \/ VerifyBase64Call(FaultFiles, FaultFiles, Failing)
    \/ InfoCall(FaultFiles, Failing)
    \/ InfoBase64Call(FaultFiles, Failing)

SpecFaults == Init /\ [][NextFaults]_vars

-----
(* The session store.  server.py holds the request-scoped tools only; the    *)
(* store that tests/test_server.py and examples/example_usage.py call        *)
(* (load_pdf, save_pdf, close_pdf, list_loaded_pdfs, DOCUMENT_STORE and the  *)
(* document_id parameter of the tools) is modelled from the specification.   *)
(* The store is the mapping in insertion order: a sequence of sessions, each *)
(* an identifier, the engine handle it owns, the document behind it, and     *)
(* redacted, the patterns redacted in the session so far (a history the      *)
(* properties read; no operation does).                                      *)
(* open is the set of engine handles that are open in the process.           *)

\* the successful loads of a run
MaxLoads == 3

Identifiers == { "d1", "d2" }

\* load without an identifier
NoIdentifier == ""

\* a source: what the path or the bytes hold, and the stem of its name
Source(stem, file) == [stem |-> stem, file |-> file]

SourcePool ==
    { Source("d1", OnePageFile), Source("d2", PdfFile([pages |-> <<Page(<<"b", "b", "b">>, <<>>)>>])),
      Source("d1", GarbageFile), Source("d2", MissingFile) }

Session(id, handle, doc) == [id |-> id, handle |-> handle, doc |-> doc, redacted |-> {}]

\* the identifiers of the live sessions
Live(st) == { st[k].id : k \in 1..Len(st) }

IndexOf(st, id) == CHOOSE k \in 1..Len(st) : st[k].id = id

\* NotFoundError: the message and the live identifiers
NotFoundError(st, id) ==
    [kind |-> "error", error |-> "not found", identifier |-> id, live |-> Live(st)]

\* what a store operation leaves behind
StoreOutcome(st, op, n, result, written) ==
    [store |-> st, open |-> op, opened |-> n, ret |-> result, out |-> written]

\* the identifier of a load: the one given, or the stem of the source
DeriveIdentifier(source, identifier) ==
    IF identifier = NoIdentifier THEN source.stem ELSE identifier

\* a replacement that keeps the handle of the session it replaces open
ReleaseNothing(st, op, id) == op

\* the handle of a session with this identifier is released
Release(st, op, id) ==
    IF id \in Live(st) THEN op \ { st[IndexOf(st, id)].handle } ELSE op

\* the new session takes the place of the one it replaces, or the last place
Install(st, id, handle, doc) ==
    IF id \in Live(st) THEN [st EXCEPT ![IndexOf(st, id)] = Session(id, handle, doc)]
    ELSE Append(st, Session(id, handle, doc))

SessionInfo(id, doc) ==
    [kind |-> "ok", document_id |-> id, pages |-> Len(doc.pages), is_encrypted |-> FALSE]

\* a load that releases the session of its identifier before it opens the
\* source: a source that does not open leaves the identifier without session
LoadReleasingFirst(st, op, n, source, identifier) ==
    IF source.file.kind # "pdf"
    THEN StoreOutcome(SelectSeq(st, LAMBDA e : e.id # DeriveIdentifier(source, identifier)),
                      Release(st, op, DeriveIdentifier(source, identifier)), n,
                      ErrorResult("cannot open source"), MissingFile)
    ELSE StoreOutcome(
             Install(st, DeriveIdentifier(source, identifier), n + 1, source.file.doc),
             Release(st, op, DeriveIdentifier(source, identifier)) \cup { n + 1 },
             n + 1,
             SessionInfo(DeriveIdentifier(source, identifier), source.file.doc),
             MissingFile)

\* load(source, identifier?): the source is opened first; a source that does
\* not open is an OpenError and the store is not touched
load_pdf(st, op, n, source, identifier) ==
    IF source.file.kind = "missing"
    THEN StoreOutcome(st, op, n, ErrorResult("no such file"), MissingFile)
    ELSE IF source.file.kind # "pdf"
    THEN StoreOutcome(st, op, n, ErrorResult("cannot open broken document"), MissingFile)
    ELSE StoreOutcome(
             Install(st, DeriveIdentifier(source, identifier), n + 1, source.file.doc),
             Release(st, op, DeriveIdentifier(source, identifier)) \cup { n + 1 },
             n + 1,
             SessionInfo(DeriveIdentifier(source, identifier), source.file.doc),
             MissingFile)

\* get(identifier): the handle of the session
get_document(st, op, n, id) ==
    IF id \notin Live(st) THEN StoreOutcome(st, op, n, NotFoundError(st, id), MissingFile)
    ELSE StoreOutcome(st, op, n, [kind |-> "ok", handle |-> st[IndexOf(st, id)].handle],
                      MissingFile)

\* the document a read reaches through an identifier
DocumentOf(st, id) == st[IndexOf(st, id)].doc

\* a close that answers an unknown identifier with a confirmation
CloseSilently(st, op, n, id) ==
    StoreOutcome(SelectSeq(st, LAMBDA e : e.id # id), Release(st, op, id), n,
                 [kind |-> "ok", closed |-> id], MissingFile)

\* close(identifier): the handle is released and the entry removed
close_pdf(st, op, n, id) ==
    IF id \notin Live(st) THEN StoreOutcome(st, op, n, NotFoundError(st, id), MissingFile)
    ELSE StoreOutcome(SelectSeq(st, LAMBDA e : e.id # id), Release(st, op, id), n,
                      [kind |-> "ok", closed |-> id], MissingFile)

\* a save that ends the session it has written
SaveAndClose(st, op, n, id) ==
    IF id \notin Live(st) THEN StoreOutcome(st, op, n, NotFoundError(st, id), MissingFile)
    ELSE StoreOutcome(SelectSeq(st, LAMBDA e : e.id # id), Release(st, op, id), n,
                      [kind |-> "ok", document_id |-> id,
                       pages |-> Len(st[IndexOf(st, id)].doc.pages)],
                      Serialize(st[IndexOf(st, id)].doc))

\* save(identifier, destination): the document as it is in memory is written
save_pdf(st, op, n, id) ==
    IF id \notin Live(st) THEN StoreOutcome(st, op, n, NotFoundError(st, id), MissingFile)
    ELSE StoreOutcome(st, op, n,
                      [kind |-> "ok", document_id |-> id,
                       pages |-> Len(DocumentOf(st, id).pages)],
                      Serialize(DocumentOf(st, id)))

\* the redaction of a document that a session holds open: the statements of
\* redact_text_by_search between the open and the save, on the session's handle
SessionRedaction(doc, search_strings, overlay_text) ==
    RedactSearchBody(Open(Begin(NoFault), PdfFile(doc)), 1, search_strings, overlay_text, Black)

\* the session after a redaction: its document is the one the engine holds
RedactedSession(st, op, n, id, search_strings, run) ==
    StoreOutcome([st EXCEPT ![IndexOf(st, id)].doc = run.h[1].doc,
                            ![IndexOf(st, id)].redacted =
                                @ \cup { search_strings[k] : k \in 1..Len(search_strings) }],
                 op, n,
                 [kind |-> "ok", document_id |-> id,
                  total_redactions |-> run.loc.total_redactions,
                  pages_modified |-> Len(run.loc.summary)],
                 MissingFile)

\* redact_text_by_search(identifier, patterns): the document is changed in place
redact_text(st, op, n, id, search_strings, overlay_text) ==
    IF id \notin Live(st) THEN StoreOutcome(st, op, n, NotFoundError(st, id), MissingFile)
    ELSE RedactedSession(st, op, n, id, search_strings,
                         SessionRedaction(DocumentOf(st, id), search_strings, overlay_text))

\* extract_text(identifier): the text of every page
extract_text(st, op, n, id) ==
    IF id \notin Live(st) THEN StoreOutcome(st, op, n, NotFoundError(st, id), MissingFile)
    ELSE StoreOutcome(st, op, n,
                      [kind |-> "ok",
                       pages |-> [k \in 1..Len(DocumentOf(st, id).pages) |->
                                     DocumentOf(st, id).pages[k].text]],
                      MissingFile)

\* the match records of one page, then of the pages after it
RECURSIVE SessionMatches(_, _, _)
SessionMatches(pages, k, search_string) ==
    IF k > Len(pages) THEN <<>>
    ELSE MatchRecords(k - 1, search_string, Locate(pages[k].text, search_string, 1), "exact")
             \o SessionMatches(pages, k + 1, search_string)

\* search_text(identifier, pattern): the match records, page by page
search_text(st, op, n, id, search_string) ==
    IF id \notin Live(st) THEN StoreOutcome(st, op, n, NotFoundError(st, id), MissingFile)
    ELSE StoreOutcome(st, op, n,
                      [kind |-> "ok", search_string |-> search_string,
                       matches |-> SessionMatches(DocumentOf(st, id).pages, 1, search_string)],
                      MissingFile)

\* get_info(identifier): page count and encryption flag
get_info(st, op, n, id) ==
    IF id \notin Live(st) THEN StoreOutcome(st, op, n, NotFoundError(st, id), MissingFile)
    ELSE StoreOutcome(st, op, n, SessionInfo(id, DocumentOf(st, id)), MissingFile)

\* a list that reports the newest session first
ListNewestFirst(st, op, n) ==
    StoreOutcome(st, op, n,
                 [kind |-> "ok", total_documents |-> Len(st),
                  documents |-> [k \in 1..Len(st) |->
                                    SessionInfo(st[Len(st) + 1 - k].id, st[Len(st) + 1 - k].doc)]],
                 MissingFile)

\* list(): one summary per live session, in the order of the store
list_loaded_pdfs(st, op, n) ==
    StoreOutcome(st, op, n,
                 [kind |-> "ok", total_documents |-> Len(st),
                  documents |-> [k \in 1..Len(st) |-> SessionInfo(st[k].id, st[k].doc)]],
                 MissingFile)

\* one call on the store
StoreApply(c, o) ==
    /\ call' = c
    /\ ret' = o.ret
    /\ out' = o.out
    /\ store' = o.store
    /\ open' = o.open
    /\ opened' = o.opened
    /\ UNCHANGED <<log, handles, crashed, disk, threads>>

LoadPdf ==
    /\ Ready
    /\ opened < MaxLoads
    /\ \E source \in SourcePool, identifier \in Identifiers \cup { NoIdentifier } :
        StoreApply([tool |-> "load", source |-> source, identifier |-> identifier],
                   load_pdf(store, open, opened, source, identifier))

GetDocument ==
    /\ Ready
    /\ \E id \in Identifiers :
        StoreApply([tool |-> "get", id |-> id], get_document(store, open, opened, id))

ClosePdf ==
    /\ Ready
    /\ \E id \in Identifiers :
        StoreApply([tool |-> "close", id |-> id], close_pdf(store, open, opened, id))

SavePdf ==
    /\ Ready
    /\ \E id \in Identifiers :
        StoreApply([tool |-> "save", id |-> id], save_pdf(store, open, opened, id))

RedactText ==
    /\ Ready
    /\ \E id \in Identifiers, ss \in PatternPool :
        StoreApply([tool |-> "redact_text", id |-> id, search_strings |-> <<ss>>],
                   redact_text(store, open, opened, id, <<ss>>, <<>>))

ExtractText ==
    /\ Ready
    /\ \E id \in Identifiers :
        StoreApply([tool |-> "extract_text", id |-> id],
                   extract_text(store, open, opened, id))

SearchText ==
    /\ Ready
    /\ \E id \in Identifiers, ss \in PatternPool :
        StoreApply([tool |-> "search_text", id |-> id, search_string |-> ss],
                   search_text(store, open, opened, id, ss))

GetInfo ==
    /\ Ready
    /\ \E id \in Identifiers :
        StoreApply([tool |-> "get_info", id |-> id], get_info(store, open, opened, id))

ListLoadedPdfs ==
    /\ Ready
    /\ StoreApply([tool |-> "list"], list_loaded_pdfs(store, open, opened))

NextStore ==
    \/ Respond
    \/ LoadPdf
    \/ GetDocument
    \/ ClosePdf
    \/ SavePdf
    \/ RedactText
    \/ ExtractText
    \/ SearchText
    \/ GetInfo
    \/ ListLoadedPdfs

SpecStore == Init /\ [][NextStore]_vars

-----------------------------------------------------------------------------
(* SpecThreads: two calls of redact_text_by_search or                       *)
(* redact_text_by_search_base64 served at the same time.  A call advances   *)
(* in steps: the open, one turn of the loop over the pages, the save, the   *)
(* close and return.  What a call holds between its steps (doc,             *)
(* total_redactions, redaction_summary) are local variables of the          *)
(* function; what the two calls share is the file system and PDF_BASE_DIR,  *)
(* which the tools read and main alone writes.                              *)

\* a call of the path tool, and a call of the base64 tool, as a thread gets it
PathRedaction(pdf_path, output_path, search_strings) ==
    [ family |-> "path", pdf_path |-> pdf_path, output_path |-> output_path,
      data |-> BadB64, search_strings |-> search_strings ]

Base64Redaction(file, search_strings) ==
    [ family |-> "base64", pdf_path |-> RelativePath(""), output_path |-> RelativePath(""),
      data |-> B64Encode(file), search_strings |-> search_strings ]

FirstCalls ==
    { PathRedaction(RelativePath("p1"), RelativePath("q1"), <<<<"a">>>>),
      Base64Redaction(TwoPageFile, <<<<"a">>>>) }

\* the second call reads and writes files of its own, or the files of the
\* first call: its input, its output (under another spelling of the path)
SecondCalls ==
    { PathRedaction(pin, pout, <<<<"a", "b">>>>) :
        pin \in { RelativePath("p2"), RelativePath("p1"), RelativePath("q1") },
        pout \in { RelativePath("q2"), AbsolutePath("pdfs", "q1") } }
      \cup { Base64Redaction(TwoPageFile, <<<<"a", "b">>>>) }

\* doc, total_redactions and redaction_summary kept at module level: one set
\* of variables for all the calls
SharedWorkspace(t) == 1

\* the local variables of thread t: each call has its own
Workspace(t) == t

\* pymupdf.open(pdf_path) after resolve_pdf_path, or
\* pymupdf.open(stream=base64.b64decode(pdf_data))
OpenGiven(d, base, c) ==
    IF c.family = "path"
    THEN Open(Begin(NoFault), FileAt(d, resolve_pdf_path(base, c.pdf_path)))
    ELSE Open(B64Decode(Begin(NoFault), c.data), BytesOf(c.data))

\* the locals once the document is open: the counters, and the pages the
\* loop has yet to visit
WorkOf(s) == [s |-> BeginRedaction(s), pages |-> Range(PageCount(s, 1))]

\* one turn of the loop over range(len(doc))
PageDone(w, c) ==
    [ s |-> RedactPage(w.s, 1, Head(w.pages), c.search_strings, <<>>, Black),
      pages |-> Tail(w.pages) ]

\* output_path names the file that was opened
SameFile(base, c) ==
    c.family = "path"
        /\ resolve_pdf_path(base, c.pdf_path) = resolve_pdf_path(base, c.output_path)

StartThreads ==
    /\ Ready
    /\ threads = NoThreads
    /\ \E base \in BaseDirs, c1 \in FirstCalls, c2 \in SecondCalls :
        threads' = [ base |-> base, c |-> <<c1, c2>>, pc |-> <<"open", "open">>,
                     work |-> <<WorkOf(Begin(NoFault)), WorkOf(Begin(NoFault))>>,
                     ret |-> <<NoResult, NoResult>> ]
    /\ UNCHANGED <<call, ret, log, out, handles, crashed, store, open, opened, disk>>

ThreadOpen ==
    \E t \in DOMAIN threads.pc :
        /\ threads.pc[t] = "open"
        /\ threads' = [threads EXCEPT
                          !.pc[t] = "pages",
                          !.work[Workspace(t)] =
                              WorkOf(OpenGiven(disk, threads.base, threads.c[t]))]
        /\ UNCHANGED <<call, ret, log, out, handles, crashed, store, open, opened, disk>>

ThreadPage ==
    \E t \in DOMAIN threads.pc :
        /\ threads.pc[t] = "pages"
        /\ threads.work[Workspace(t)].pages # <<>>
        /\ threads' = [threads EXCEPT
                          !.work[Workspace(t)] = PageDone(@, threads.c[t])]
        /\ UNCHANGED <<call, ret, log, out, handles, crashed, store, open, opened, disk>>

\* doc.save(output_path): the locals after the save, and the file written
ThreadSaved(t, s) ==
    /\ threads' = [threads EXCEPT !.pc[t] = "return", !.work[Workspace(t)].s = s]
    /\ disk' = IF threads.c[t].family = "path" /\ s.exc = ""
               THEN WriteFile(disk, resolve_pdf_path(threads.base, threads.c[t].output_path),
                              s.out)
               ELSE disk

ThreadSave ==
    \E t \in DOMAIN threads.pc :
        /\ threads.pc[t] = "pages"
        /\ threads.work[Workspace(t)].pages = <<>>
        /\ ThreadSaved(t, Save(threads.work[Workspace(t)].s, 1,
                               SameFile(threads.base, threads.c[t])))
        /\ UNCHANGED <<call, ret, log, out, handles, crashed, store, open, opened>>

\* doc.close(); return json.dumps(result), or the except clause
ThreadReturn ==
    \E t \in DOMAIN threads.pc :
        /\ threads.pc[t] = "return"
        /\ threads' = [threads EXCEPT
                          !.pc[t] = "done",
                          !.ret[t] = RedactSearchResult(
                                         Close(threads.work[Workspace(t)].s, 1),
                                         threads.c[t].family,
                                         threads.c[t].search_strings).ret]
        /\ UNCHANGED <<call, ret, log, out, handles, crashed, store, open, opened, disk>>

NextThreads ==
    \/ StartThreads
    \/ ThreadOpen
    \/ ThreadPage
    \/ ThreadSave
    \/ ThreadReturn

SpecThreads == Init /\ [][NextThreads]_vars

-----------------------------------------------------------------------------
(* SpecPending: the fourteen tools on documents that arrive with redaction    *)
(* annotations already on their pages (add_redact_annot was called on them    *)
(* and apply_redactions was not, before they were saved), the engine working  *)
(* or one of its operations raising                                           *)

\* a page that carries redaction annotations when the document is opened
MarkedPage(text, images, marks) == [text |-> text, annots |-> marks, images |-> images]

\* a redaction annotation over cell i, as another program left it
PendingMark(i) == Mark(CellRect(i), <<>>, <<1, 0, 0>>)

\* two pages, "aba" with an annotation over its "b" and "bAb" with an
\* annotation over its last cell and two images; and one page "bbb" with an
\* annotation over its first cell
MarkedFiles ==
    { PdfFile([pages |-> << MarkedPage(<<"a", "b", "a">>, <<>>, <<PendingMark(2)>>),
                            MarkedPage(<<"b", "A", "b">>,
                                       <<Image(FALSE, Rect(0, 0, 2, 1)),
                                         Image(TRUE, Rect(0, 0, 0, 0))>>,
                                       <<PendingMark(3)>>) >>]),
      PdfFile([pages |-> << MarkedPage(<<"b", "b", "b">>, <<>>, <<PendingMark(1)>>) >>]) }

NextPending ==
    \/ Respond
    \/ SearchCall(MarkedFiles, Faults)
    \/ SearchBase64Call(MarkedFiles, Faults)
    \/ RedactSearchCall(MarkedFiles, Faults)
    \/ RedactSearchBase64Call(MarkedFiles, Faults)
    \/ ExtractCall(MarkedFiles, Faults)
    \/ ExtractBase64Call(MarkedFiles, Faults)
    \/ CoordinatesCall(MarkedFiles, Faults)
    \/ CoordinatesBase64Call(MarkedFiles, Faults)
    \/ ImagesCall(MarkedFiles, Faults)
    \/ ImagesBase64Call(MarkedFiles, Faults)
    \/ VerifyCall(MarkedFiles, MarkedFiles, Faults)
    \/ VerifyBase64Call(MarkedFiles, MarkedFiles, Faults)
    \/ InfoCall(MarkedFiles, Faults)
    \/ InfoBase64Call(MarkedFiles, Faults)

SpecPending == Init /\ [][NextPending]_vars

\* the outcome of a call, computed from its record
Replay(c) ==
    IF c.family = "path"
    THEN CASE c.tool = "search_text" ->
                 search_text_in_pdf(c.file, c.search_string, c.case_sensitive, c.use_regex,
                                    c.page_number, c.fault)
           [] c.tool = "redact_search" ->
                 redact_text_by_search(c.file, c.same_file, c.search_strings, c.fill_color,
                                       c.overlay_text, c.fault)
           [] c.tool = "extract_text" ->
                 extract_text_from_pdf(c.file, c.page_number, c.format, c.fault)
           [] c.tool = "redact_coordinates" ->
                 redact_by_coordinates(c.file, c.same_file, c.redactions, c.fill_color,
                                       c.overlay_text, c.fault)
           [] c.tool = "redact_images" ->
                 redact_images_in_pdf(c.file, c.same_file, c.page_numbers, c.fill_color,
                                      c.overlay_text, c.fault)
           [] c.tool = "verify" ->
                 verify_redactions(c.original, c.redacted, c.search_strings, c.fault)
           [] c.tool = "get_info" -> get_pdf_info(c.file, c.fault)
    ELSE CASE c.tool = "search_text" ->
                 search_text_in_pdf_base64(c.data, c.search_string, c.case_sensitive,
                                           c.use_regex, c.page_number, c.fault)
           [] c.tool = "redact_search" ->
                 redact_text_by_search_base64(c.data, c.search_strings, c.fill_color,
                                              c.overlay_text, c.fault)
           [] c.tool = "extract_text" ->
                 extract_text_from_pdf_base64(c.data, c.page_number, c.format, c.fault)
           [] c.tool = "redact_coordinates" ->
                 redact_by_coordinates_base64(c.data, c.redactions, c.fill_color,
                                              c.overlay_text, c.fault)
           [] c.tool = "redact_images" ->
                 redact_images_in_pdf_base64(c.data, c.page_numbers, c.fill_color,
                                             c.overlay_text, c.fault)
           [] c.tool = "verify" ->
                 verify_redactions_base64(c.original, c.redacted, c.search_strings, c.fault)
           [] c.tool = "get_info" -> get_pdf_info_base64(c.data, c.fault)

-----------------------------------------------------------------------------
(* SpecSteps: one call of a redaction tool, advanced a turn at a time: the    *)
(* open and the locals, each turn of its loops, the save, the close and       *)
(* return.  One engine operation of the call may raise; control then goes to  *)
(* the except clause.  The thread that serves the call keeps running, which   *)
(* is the fairness of SpecSteps.                                              *)

\* one turn of a loop of a handler: of the loop over the pages, over the
\* directives, or of the pass that commits every page
Turn(kind, v) == [kind |-> kind, v |-> v]

TurnsOf(kind, items) == [k \in 1..Len(items) |-> Turn(kind, items[k])]

\* the calls that are stepped: each redaction tool of both families on a
\* two-page document, with each fault
StepCalls ==
    { [ tool |-> "redact_search", family |-> fam, file |-> file, data |-> B64Encode(file),
        same_file |-> FALSE, search_strings |-> pats, fill_color |-> Black,
        overlay_text |-> <<>>, fault |-> f ] :
        fam \in { "path", "base64" }, file \in FaultFiles,
        pats \in { <<>>, <<<<"a">>>>, <<<<"a">>, <<"a", "b">>>> }, f \in Faults }
      \cup
    { [ tool |-> "redact_images", family |-> fam, file |-> file, data |-> B64Encode(file),
        same_file |-> FALSE, page_numbers |-> pns, fill_color |-> Black,
        overlay_text |-> <<>>, fault |-> f ] :
        fam \in { "path", "base64" }, file \in FaultFiles, pns \in PageListPool,
        f \in Faults }
      \cup
    { [ tool |-> "redact_coordinates", family |-> fam, file |-> file,
        data |-> B64Encode(file), same_file |-> FALSE, redactions |-> reds,
        fill_color |-> Black, overlay_text |-> <<>>, fault |-> f ] :
        fam \in { "path", "base64" }, file \in FaultFiles,
        reds \in { <<>>, <<ValidDirective>>, <<TextDirective, ValidDirective>>,
                   <<ValidDirective, PageDirective(1)>>,
                   <<NonNumericDirective, ValidDirective>> },
        f \in Faults }

\* doc = pymupdf.open(pdf_path), or
\* doc = pymupdf.open(stream=base64.b64decode(pdf_data), filetype="pdf")
CallOpened(c) ==
    IF c.family = "path" THEN Open(Begin(c.fault), c.file)
    ELSE Open(B64Decode(Begin(c.fault), c.data), BytesOf(c.data))

\* the counters and lists a handler starts with
CallLocals(c, s) ==
    CASE c.tool = "redact_search" -> BeginRedaction(s)
      [] c.tool = "redact_images" ->
            [s EXCEPT !.loc = [total_images_redacted |-> 0, summary |-> <<>>,
                               page_images |-> 0]]
      [] c.tool = "redact_coordinates" -> [s EXCEPT !.loc = <<>>]

\* a handler that forgets the pages after the first
TurnsFirstOnly(c, s) ==
    CASE c.tool = "redact_search" -> TurnsOf("page", Range(Min(1, PageCount(s, 1))))
      [] c.tool = "redact_images" ->
            TurnsOf("images", IF c.page_numbers.some
                              THEN SubSeq(c.page_numbers.v, 1, Min(1, Len(c.page_numbers.v)))
                              ELSE Range(Min(1, PageCount(s, 1))))
      [] c.tool = "redact_coordinates" ->
            TurnsOf("directive", c.redactions)
                \o TurnsOf("commit", Range(Min(1, PageCount(s, 1))))

\* the turns a handler has before it once the document is open: one per page,
\* one per page selected, or one per directive and then one commit per page
Turns(c, s) ==
    CASE c.tool = "redact_search" -> TurnsOf("page", Range(PageCount(s, 1)))
      [] c.tool = "redact_images" ->
            TurnsOf("images", IF c.page_numbers.some THEN c.page_numbers.v
                              ELSE Range(PageCount(s, 1)))
      [] c.tool = "redact_coordinates" ->
            TurnsOf("directive", c.redactions)
                \o TurnsOf("commit", Range(PageCount(s, 1)))

\* the turns that are left to a call
TurnsLeft(c, s) == IF s.exc # "" THEN <<>> ELSE Turns(c, s)

\* the body of one turn
DoTurn(c, s, turn) ==
    CASE turn.kind = "page" ->
            RedactPage(s, 1, turn.v, c.search_strings, c.overlay_text, c.fill_color)
      [] turn.kind = "images" ->
            RedactImagesPage(s, 1, turn.v, c.overlay_text, c.fill_color)
      [] turn.kind = "directive" ->
            CoordinateDirective(s, 1, turn.v, c.fill_color, c.overlay_text)
      [] turn.kind = "commit" ->
            ApplyRedactions(LoadPage(s, 1, turn.v), 1, turn.v, FALSE)

\* result = {...}; return json.dumps(result), or the except clause
CallResult(c, s) ==
    CASE c.tool = "redact_search" -> RedactSearchResult(s, c.family, c.search_strings)
      [] c.tool = "redact_images" -> RedactImagesResult(s, c.family)
      [] c.tool = "redact_coordinates" -> CoordinatesResult(s, c.family)

\* where control is once the run state is s and todo is left of the loops: in
\* the except clause, at the save, or at the next turn
Control(s, todo) ==
    IF s.exc # "" THEN "return" ELSE IF todo = <<>> THEN "save" ELSE "pages"

\* the locals of a call turn after turn: after the open, and after each turn
\* of its loops, until the loops end or an operation raises
RECURSIVE TurnsTaken(_, _, _)
TurnsTaken(c, s, todo) ==
    <<[s |-> s, pages |-> todo]>>
        \o (IF Control(s, todo) = "pages"
            THEN TurnsTaken(c, DoTurn(c, s, Head(todo)), Tail(todo))
            ELSE <<>>)

RunOf(c, s) == TurnsTaken(c, s, TurnsLeft(c, s))

\* the run of every call that is stepped
Runs == [c \in StepCalls |-> RunOf(c, CallLocals(c, CallOpened(c)))]

\* the thread at the k-th entry of the run of its call
At(c, k) ==
    [ base |-> NoBaseDir, c |-> <<c>>,
      pc |-> <<Control(Runs[c][k].s, Runs[c][k].pages)>>,
      work |-> <<Runs[c][k]>>, ret |-> <<NoResult>> ]

\* the turns a thread has taken
TurnsDone(th) == Len(Runs[th.c[1]][1].pages) - Len(th.work[1].pages)

StepStart ==
    /\ Ready
    /\ threads = NoThreads
    /\ \E c \in StepCalls :
        /\ c.fault = NoFault \/ Replay(c).faulted
        /\ threads' = At(c, 1)
    /\ UNCHANGED <<call, ret, log, out, handles, crashed, store, open, opened, disk>>

StepTurn ==
    /\ threads # NoThreads
    /\ threads.pc[1] = "pages"
    /\ threads' = At(threads.c[1], TurnsDone(threads) + 2)
    /\ UNCHANGED <<call, ret, log, out, handles, crashed, store, open, opened, disk>>

\* doc.save(output_path), or doc.save(output_buffer)
StepSave ==
    /\ threads # NoThreads
    /\ threads.pc[1] = "save"
    /\ \E s \in { Save(threads.work[1].s, 1,
                        threads.c[1].family = "path" /\ threads.c[1].same_file) } :
          threads' = [threads EXCEPT !.pc[1] = "return", !.work[1].s = s]
    /\ UNCHANGED <<call, ret, log, out, handles, crashed, store, open, opened, disk>>

\* the thread once the call has returned: s is the run state after doc.close()
Returned(c, s) ==
    threads' = [threads EXCEPT !.pc[1] = "done", !.work[1].s = s,
                               !.ret[1] = CallResult(c, s).ret]

\* doc.close() and the result, or the except clause
StepReturn ==
    /\ threads # NoThreads
    /\ threads.pc[1] = "return"
    /\ \E s \in { Close(threads.work[1].s, 1) } : Returned(threads.c[1], s)
    /\ UNCHANGED <<call, ret, log, out, handles, crashed, store, open, opened, disk>>

NextSteps ==
    \/ StepStart
    \/ StepTurn
    \/ StepSave
    \/ StepReturn

SpecSteps == Init /\ [][NextSteps]_vars /\ WF_vars(NextSteps)

-----------------------------------------------------------------------------
(* Properties of the request-scoped tools *)

\* the characters of a string, without regard to case
Chars(t) == { Fold(t[i]) : i \in 1..Len(t) }

\* a literal occurs in a row of cells, without regard to case
Occurs(text, needle) ==
    \E i \in 1..(Len(text) - Len(needle) + 1) :
        FoldStr(SubSeq(text, i, i + Len(needle) - 1)) = FoldStr(needle)

\* a literal occurs on some page of a file
OccursIn(file, needle) ==
    file.kind = "pdf" /\ \E k \in 1..Len(file.doc.pages) : Occurs(file.doc.pages[k].text, needle)

\* the document a call was given, by path or as base64
GivenFile(c) == IF c.family = "path" THEN c.file ELSE BytesOf(c.data)

\* redact_text_by_search has returned the redaction of one pattern X that the
\* given document contains
RedactedOne ==
    /\ call.tool = "redact_search"
    /\ ret.kind = "ok"
    /\ Len(call.search_strings) = 1
    /\ OccursIn(GivenFile(call), call.search_strings[1])

\* search_text_in_pdf on a file finds nothing, in each of its modes
SearchFindsNothing(file, X) ==
    \A cs \in BOOLEAN, rx \in BOOLEAN :
        /\ search_text_in_pdf(file, X, cs, rx, NoPage, NoFault).ret.kind = "ok"
        /\ search_text_in_pdf(file, X, cs, rx, NoPage, NoFault).ret.total_matches = 0

Candidate(c) == IF c.family = "path" THEN c.redacted ELSE BytesOf(c.redacted)

Requested(c) ==
    IF c.search_strings.some
    THEN { c.search_strings.v[k] : k \in 1..Len(c.search_strings.v) }
    ELSE {}

\* C2: verify_redactions reports the overall verdict PASS exactly when every
\* requested pattern is absent from every page of the candidate document,
\* whatever the original, the page counts and the text comparison are; with
\* no pattern requested the verdict is PASS.
C2_VerdictIffAbsent ==
    (call.tool = "verify" /\ ret.kind = "ok")
        => (ret.overall_verdict = "PASS"
                <=> \A X \in Requested(call) : ~OccursIn(Candidate(call), X))

\* a PASS on requested patterns while the page counts differ and a page's text
\* was modified
C2_Witness ==
    /\ call.tool = "verify"
    /\ ret.kind = "ok"
    /\ ret.overall_verdict = "PASS"
    /\ Requested(call) # {}
    /\ ~ret.pages_match
    /\ \E k \in 1..Len(ret.text_comparison) : ret.text_comparison[k].text_modified

\* C3: whichever engine operation of a call raises (open, page access, text,
\* search, stage, commit, save, close), the tool returns an error result that
\* carries the message of the exception; no exception leaves a call, and after
\* a failed call the server takes the next call as it takes the first (the
\* handlers read nothing but their arguments).
C3_FailuresAreReturned ==
    /\ ~crashed
    /\ (call # Idle /\ call.fault # NoFault)
           => (ret.kind = "error" /\ ret.error = "engine failure in " \o call.fault.kind)
    /\ (call = Idle) => (ret = NoResult /\ log = <<>> /\ handles = <<>>)

\* a commit that raised, returned as an error
C3_Witness ==
    /\ call # Idle
    /\ call.fault.kind = "apply_redactions"
    /\ ret.kind = "error"
    /\ ret.error = "engine failure in apply_redactions"

\* C4 as stated: when a request-scoped tool returns, on the success path and on
\* every error path, every handle the call opened has been closed.
C4_EveryHandleClosed == \A i \in 1..Len(handles) : handles[i]

\* redact_by_coordinates was called on a document that opens, to write a file
\* other than the one it reads
CoordinatesServed ==
    /\ call.tool = "redact_coordinates"
    /\ GivenFile(call).kind = "pdf"
    /\ (call.family = "path" => ~call.same_file)

\* the page of a directive is a page of the given document
InRange(c, d) == GetPage(d) >= 0 /\ GetPage(d) < Len(GivenFile(c).doc.pages)

\* the bounding box of a directive has exactly four numeric components
FourNumbers(d) ==
    d.bbox.some /\ Len(d.bbox.v) = 4 /\ \A k \in 1..4 : d.bbox.v[k].num

\* C5 as stated: a directive whose bounding box does not have exactly four
\* numeric components (missing, empty, wrong length, or four components with
\* one that is no number) is recorded as a per-item error and does not abort
\* the batch: the call returns a batch result in which every other valid
\* directive is reported as applied.
C5_BadBoxIsPerItemError ==
    CoordinatesServed
        => /\ ret.kind = "ok"
           /\ Len(ret.redactions) = Len(call.redactions)
           /\ \A k \in 1..Len(call.redactions) :
                InRange(call, call.redactions[k])
                    => ret.redactions[k].status =
                           (IF FourNumbers(call.redactions[k]) THEN "applied" ELSE "error")

\* no directive of the call reaches pymupdf.Rect with a component that is no
\* number
RectsAreBuilt(c) ==
    \A k \in 1..Len(c.redactions) :
        (InRange(c, c.redactions[k]) /\ ~BadBBox(c.redactions[k].bbox))
            => Numeric(c.redactions[k].bbox)

\* the positions of the directives that are staged
Staged(c) ==
    { k \in 1..Len(c.redactions) : InRange(c, c.redactions[k]) /\ FourNumbers(c.redactions[k]) }

Counterpart(c) ==
    CASE c.tool = "search_text" ->
            search_text_in_pdf_base64(B64Encode(c.file), c.search_string, c.case_sensitive,
                                      c.use_regex, c.page_number, c.fault)
      [] c.tool = "redact_search" ->
            redact_text_by_search_base64(B64Encode(c.file), c.search_strings, c.fill_color,
                                         c.overlay_text, c.fault)
      [] c.tool = "extract_text" ->
            extract_text_from_pdf_base64(B64Encode(c.file), c.page_number, c.format, c.fault)
      [] c.tool = "redact_coordinates" ->
            redact_by_coordinates_base64(B64Encode(c.file), c.redactions, c.fill_color,
                                         c.overlay_text, c.fault)
      [] c.tool = "redact_images" ->
            redact_images_in_pdf_base64(B64Encode(c.file), c.page_numbers, c.fill_color,
                                        c.overlay_text, c.fault)
      [] c.tool = "verify" ->
            verify_redactions_base64(B64Encode(c.original), B64Encode(c.redacted),
                                     c.search_strings, c.fault)
      [] c.tool = "get_info" -> get_pdf_info_base64(B64Encode(c.file), c.fault)

\* a path call whose files exist and whose output goes to another file
PathCallOnFiles ==
    /\ call # Idle
    /\ call.family = "path"
    /\ IF call.tool = "verify"
       THEN call.original # MissingFile /\ call.redacted # MissingFile
       ELSE call.file # MissingFile
    /\ ("same_file" \in DOMAIN call) => ~call.same_file

\* two results agree in everything but the way the document is returned
SameReport(r, q) ==
    /\ r.kind = q.kind
    /\ \A f \in DOMAIN r \ { "output_file" } : f \in DOMAIN q /\ r[f] = q[f]

\* C7 as stated: a path-based tool and its base64 counterpart, on the same
\* document content and parameters, perform the same sequence of engine
\* operations and return the same records, counts, summaries, report and
\* resulting document.
C7_FamiliesAgree ==
    PathCallOnFiles
        => /\ log = Counterpart(call).log
           /\ SameReport(ret, Counterpart(call).ret)
           /\ out = Counterpart(call).out

\* extract_text_from_pdf was called on a document that opens
ExtractServed == call.tool = "extract_text" /\ GivenFile(call).kind = "pdf"

\* the pages a call loaded, in the order it loaded them
RECURSIVE LoadedPages(_)
LoadedPages(lg) ==
    IF lg = <<>> THEN <<>>
    ELSE (IF Head(lg).op = "load_page" THEN <<Head(lg).page>> ELSE <<>>) \o LoadedPages(Tail(lg))

\* the page argument of a call is a page of the given document
PageInRange(c) ==
    c.page_number[1] >= 0 /\ c.page_number[1] < Len(GivenFile(c).doc.pages)

\* the pages extract_text_from_pdf is to process, and no other: the page
\* given, or every page once in ascending order
C13_PagesProcessed ==
    (ExtractServed /\ (call.page_number = NoPage \/ PageInRange(call)))
        => /\ LoadedPages(log) =
                  (IF call.page_number = NoPage THEN Range(Len(GivenFile(call).doc.pages))
                   ELSE call.page_number)
           /\ (ret.kind = "ok" =>
                  [k \in 1..Len(ret.pages) |->
                      IF call.format = "text" THEN ret.pages[k].header - 1
                      ELSE ret.pages[k].page_number] = LoadedPages(log))

\* C13 as stated: extract_text with a page argument outside [0, pageCount)
\* returns an invalid-page error result and extracts nothing; with a page in
\* the range it processes exactly that page; with no page argument it
\* processes every page once in ascending order, in each of the three modes.
C13_InvalidPageIsReported ==
    /\ C13_PagesProcessed
    /\ (ExtractServed /\ call.page_number # NoPage /\ ~PageInRange(call))
           => /\ ret = ErrorResult("Invalid page number")
              /\ LoadedPages(log) = <<>>
              /\ CountOps(log, "get_text") = 0

\* redact_images_in_pdf was called on a document that opens
ImagesServed == call.tool = "redact_images" /\ GivenFile(call).kind = "pdf"

\* the operations of one kind that a call made on one page
CountOn(lg, kind, page) ==
    Cardinality({ i \in 1..Len(lg) : lg[i].op = kind /\ lg[i].page = page })

\* the pages a call of redact_images_in_pdf selects: those listed that the
\* document has, or every page
SelectedPages(c) ==
    IF c.page_numbers.some
    THEN { c.page_numbers.v[k] : k \in 1..Len(c.page_numbers.v) }
             \cap 0..(Len(GivenFile(c).doc.pages) - 1)
    ELSE 0..(Len(GivenFile(c).doc.pages) - 1)

\* the images of a page whose placement box is bounded
Bounded(page) == { k \in 1..Len(page.images) : ~page.images[k].infinite }

\* C14: in redact_images_in_pdf, on each selected page one mark is staged for
\* every image whose box is bounded and none for an image whose box is
\* infinite; a page is committed, with the image-removal policy, exactly when
\* it received a mark in this call (once, and the images under its marks are
\* gone from the document written), and a page that received none is not
\* committed and is written as it was given.
C14_ImagesMarkedAndCommitted ==
    ImagesServed
        => \A p \in 0..(Len(GivenFile(call).doc.pages) - 1) :
             /\ CountOn(log, "add_redact_annot", p) =
                    (IF p \in SelectedPages(call)
                     THEN Cardinality(Bounded(GivenFile(call).doc.pages[p + 1])) ELSE 0)
             /\ CountOn(log, "apply_redactions", p) =
                    (IF CountOn(log, "add_redact_annot", p) > 0 THEN 1 ELSE 0)
             /\ ret.kind = "ok"
                    => IF CountOn(log, "apply_redactions", p) = 1
                       THEN /\ Bounded(out.doc.pages[p + 1]) = {}
                            /\ out.doc.pages[p + 1].annots = <<>>
                       ELSE out.doc.pages[p + 1] = GivenFile(call).doc.pages[p + 1]

\* a call on two pages, listed in descending order, of which one holds a
\* bounded and an infinite image and the other none
C14_Witness ==
    /\ ImagesServed
    /\ ret.kind = "ok"
    /\ call.page_numbers = Some(<<1, 0>>)
    /\ Len(GivenFile(call).doc.pages) = 2
    /\ CountOn(log, "add_redact_annot", 1) = 1
    /\ CountOn(log, "get_image_bbox", 1) = 2
    /\ CountOn(log, "apply_redactions", 0) = 0
    /\ Len(out.doc.pages[2].images) = 1

\* the original of a verification
Original(c) == IF c.family = "path" THEN c.original ELSE BytesOf(c.original)

\* C15: verify_redactions called with one document as the original and as the
\* candidate and with no patterns reports pages_match, one text_comparison
\* entry per page, text_modified false and words_removed 0 on every page,
\* and the overall verdict PASS.
C15_SelfVerification ==
    (call.tool = "verify" /\ call.original = call.redacted
        /\ Candidate(call).kind = "pdf" /\ Requested(call) = {})
        => /\ ret.kind = "ok"
           /\ ret.pages_match
           /\ Len(ret.text_comparison) = Len(Candidate(call).doc.pages)
           /\ \A k \in 1..Len(ret.text_comparison) :
                 /\ ret.text_comparison[k].page = k - 1
                 /\ ~ret.text_comparison[k].text_modified
                 /\ ret.text_comparison[k].words_removed = 0
           /\ ret.string_checks = <<>>
           /\ ret.overall_verdict = "PASS"

\* a document of two pages verified against itself, no patterns given
C15_Witness ==
    /\ call.tool = "verify"
    /\ call.original = call.redacted
    /\ call.search_strings = None
    /\ ret.kind = "ok"
    /\ Len(ret.text_comparison) = 2
    /\ ret.text_comparison[2].original_word_count > 0

\* the handle verify binds to the candidate: the third the path tool opens,
\* the second the base64 tool opens
CandidateHandle(c) == IF c.family = "path" THEN 3 ELSE 2

\* the patterns of a verification, in the order given
RequestedList(c) == IF c.search_strings.some THEN c.search_strings.v ELSE <<>>

\* a verification of two documents that open and differ in their page counts
PageCountsDiffer ==
    /\ call.tool = "verify"
    /\ Original(call).kind = "pdf"
    /\ Candidate(call).kind = "pdf"
    /\ Len(Original(call).doc.pages) # Len(Candidate(call).doc.pages)

\* C16: when the original and the candidate differ in their page counts,
\* verify_redactions reports pages_match false and still returns a verdict:
\* text_comparison has min(original pages, candidate pages) entries, for the
\* pages 0 .. min-1 in ascending order, and each pattern is searched once on
\* every page of the candidate and never in the original.
C16_PageCountMismatch ==
    PageCountsDiffer
        => /\ ret.kind = "ok"
           /\ ~ret.pages_match
           /\ ret.overall_verdict \in { "PASS", "FAIL" }
           /\ [k \in 1..Len(ret.text_comparison) |-> ret.text_comparison[k].page]
                  = Range(Min(Len(Original(call).doc.pages), Len(Candidate(call).doc.pages)))
           /\ \A i \in 1..Len(log) : log[i].op = "search_for" => log[i].h = CandidateHandle(call)
           /\ \A p \in 0..(Len(Candidate(call).doc.pages) - 1) :
                 CountOn(log, "search_for", p) = Len(RequestedList(call))
           /\ CountOps(log, "search_for")
                  = Len(RequestedList(call)) * Len(Candidate(call).doc.pages)

\* an original of two pages against a candidate of one, two patterns given
C16_Witness ==
    /\ PageCountsDiffer
    /\ Len(Original(call).doc.pages) = 2
    /\ Len(Candidate(call).doc.pages) = 1
    /\ Len(RequestedList(call)) = 2
    /\ ret.kind = "ok"
    /\ Len(ret.text_comparison) = 1

\* an original of one page against a candidate of two in which a pattern is
\* found on the second page only
C16_WitnessLonger ==
    /\ PageCountsDiffer
    /\ Len(Original(call).doc.pages) = 1
    /\ Len(Candidate(call).doc.pages) = 2
    /\ ret.kind = "ok"
    /\ \E k \in 1..Len(ret.string_checks) : ret.string_checks[k].pages_found = <<1>>

\* the text of the page a match record names
MatchedPage(c, m) ==
    GivenFile(c).doc.pages[WrapIndex(m.page, Len(GivenFile(c).doc.pages)) + 1].text

\* the occurrences of a literal in the pages of a document, letter case
\* ignored or respected
RECURSIVE OccurrenceCount(_, _, _)
OccurrenceCount(pages, X, ignorecase) ==
    IF pages = <<>> THEN 0
    ELSE Len(ReFindIter(Head(pages).text, X, ignorecase, 1))
             + OccurrenceCount(Tail(pages), X, ignorecase)

\* C17 as stated: case_sensitive decides whether search_text_in_pdf and
\* redact_text_by_search respect letter case: with case_sensitive = true an
\* occurrence that differs from the search string in letter case only is
\* neither reported nor redacted, with case_sensitive = false it is, in
\* literal mode as in regex mode.
C17_CaseSensitiveDecides ==
    /\ (call.tool = "search_text" /\ ret.kind = "ok" /\ call.case_sensitive)
           => \A k \in 1..Len(ret.matches) :
                 SubSeq(MatchedPage(call, ret.matches[k]),
                        ret.matches[k].bbox[1] + 1, ret.matches[k].bbox[3])
                     = call.search_string
    /\ (call.tool = "search_text" /\ ret.kind = "ok" /\ call.page_number = NoPage)
           => (ret.total_matches > 0
                  <=> OccurrenceCount(GivenFile(call).doc.pages, call.search_string,
                                      ~call.case_sensitive) > 0)
    /\ (call.tool = "redact_search" /\ ret.kind = "ok" /\ Len(call.search_strings) = 1)
           => ret.total_redactions
                  = OccurrenceCount(GivenFile(call).doc.pages, call.search_strings[1],
                                    ~call.case_sensitive)

\* the whole of a call at once, on the files as they are
Atomic(d, base, c) ==
    IF c.family = "path"
    THEN redact_text_by_search(FileAt(d, resolve_pdf_path(base, c.pdf_path)),
                               SameFile(base, c), c.search_strings, Black, <<>>, NoFault)
    ELSE redact_text_by_search_base64(c.data, c.search_strings, Black, <<>>, NoFault)

\* the result of a call and the files after it
AfterCall(d, base, c, o) ==
    [ ret |-> o.ret,
      disk |-> IF c.family = "path" /\ o.out # MissingFile
               THEN WriteFile(d, resolve_pdf_path(base, c.output_path), o.out)
               ELSE d ]

\* the results of two calls and the files after them, the second call made
\* when the first has returned
Second(base, ca, cb, a) ==
    [ first |-> a.ret,
      second |-> AfterCall(a.disk, base, cb, Atomic(a.disk, base, cb)).ret,
      disk |-> AfterCall(a.disk, base, cb, Atomic(a.disk, base, cb)).disk ]

OneAfterTheOther(d, base, ca, cb) ==
    Second(base, ca, cb, AfterCall(d, base, ca, Atomic(d, base, ca)))

\* the files a call reads or writes
Touched(base, c) ==
    IF c.family = "path"
    THEN { resolve_pdf_path(base, c.pdf_path), resolve_pdf_path(base, c.output_path) }
    ELSE {}

\* two calls are being served, on different documents
DifferentDocuments ==
    /\ threads # NoThreads
    /\ Touched(threads.base, threads.c[1]) \cap Touched(threads.base, threads.c[2]) = {}

BothDone == threads # NoThreads /\ threads.pc = <<"done", "done">>

\* C18: the request-scoped tools keep no state between calls and write no
\* state they share: when two calls on different documents are served at the
\* same time, whatever the interleaving of their steps, the result of each
\* call and the files written are those of the two calls made one after the
\* other, in either order.
C18_InterleavingIsSequential ==
    (BothDone /\ DifferentDocuments)
        => /\ [first |-> threads.ret[1], second |-> threads.ret[2], disk |-> disk]
                  = OneAfterTheOther(DiskInit, threads.base, threads.c[1], threads.c[2])
           /\ [first |-> threads.ret[2], second |-> threads.ret[1], disk |-> disk]
                  = OneAfterTheOther(DiskInit, threads.base, threads.c[2], threads.c[1])

\* two calls of the path tool on different files below the base directory
\* have both returned and both written their output
C18_Witness ==
    /\ BothDone
    /\ DifferentDocuments
    /\ threads.base # NoBaseDir
    /\ threads.c[1].family = "path"
    /\ threads.c[2].family = "path"
    /\ threads.ret[1].kind = "ok"
    /\ threads.ret[2].kind = "ok"
    /\ threads.ret[1].total_redactions > 0
    /\ disk[AbsolutePath("pdfs", "q1")].kind = "pdf"
    /\ disk[AbsolutePath("pdfs", "q2")].kind = "pdf"

\* the two calls on different documents in the middle of their loops, each
\* with a page behind it
C18_WitnessInterleaved ==
    /\ DifferentDocuments
    /\ threads.pc = <<"pages", "pages">>
    /\ Len(threads.work[1].pages) = 1
    /\ threads.work[2].pages = <<>>
    /\ threads.c[2].family = "path"

\* redact_text_by_search was called on a document that opens
RedactSearchServed == call.tool = "redact_search" /\ GivenFile(call).kind = "pdf"

\* the needles a call searched on one page, in the order of the searches
RECURSIVE NeedlesOn(_, _)
NeedlesOn(lg, page) ==
    IF lg = <<>> THEN <<>>
    ELSE (IF Head(lg).op = "search_for" /\ Head(lg).page = page
          THEN <<Head(lg).needle>> ELSE <<>>) \o NeedlesOn(Tail(lg), page)

\* the hits of the patterns of a list on a text
RECURSIVE HitCount(_, _)
HitCount(text, patterns) ==
    IF patterns = <<>> THEN 0
    ELSE Len(Locate(text, Head(patterns), 1)) + HitCount(text, Tail(patterns))

\* C19: redact_text_by_search handles the pages in ascending order; on each
\* page the patterns are searched in the order given and a mark is staged for
\* every hit before the page is committed; a page is committed once if it
\* received a mark and not at all if it received none, never once per match,
\* and nothing is searched or staged on a page after its commit.
C19_StageThenCommitOnce ==
    RedactSearchServed
        => /\ LoadedPages(log) = Range(Len(GivenFile(call).doc.pages))
           /\ \A i \in 1..Len(log), j \in 1..Len(log) :
                 (i < j /\ log[i].page >= 0 /\ log[j].page >= 0)
                     => log[i].page <= log[j].page
           /\ \A p \in 0..(Len(GivenFile(call).doc.pages) - 1) :
                 /\ NeedlesOn(log, p) = call.search_strings
                 /\ CountOn(log, "add_redact_annot", p)
                        = HitCount(GivenFile(call).doc.pages[p + 1].text, call.search_strings)
                 /\ CountOn(log, "apply_redactions", p)
                        = (IF CountOn(log, "add_redact_annot", p) > 0 THEN 1 ELSE 0)
           /\ \A i \in 1..Len(log), j \in 1..Len(log) :
                 (log[i].op = "apply_redactions" /\ log[j].page = log[i].page /\ j # i)
                     => j < i

\* two patterns on two pages: three marks and one commit on the first page,
\* no mark and no commit on the second
C19_Witness ==
    /\ RedactSearchServed
    /\ ret.kind = "ok"
    /\ call.search_strings = << <<"a">>, <<"a", "b">> >>
    /\ Len(GivenFile(call).doc.pages) = 2
    /\ CountOn(log, "add_redact_annot", 0) = 3
    /\ CountOn(log, "apply_redactions", 0) = 1
    /\ CountOn(log, "add_redact_annot", 1) = 0
    /\ CountOn(log, "apply_redactions", 1) = 0
    /\ CountOn(log, "search_for", 1) = 2
    /\ ret.summary = << [page |-> 0, redactions |-> 3] >>

\* the pages a call committed, in the order of the commits
RECURSIVE CommittedPages(_)
CommittedPages(lg) ==
    IF lg = <<>> THEN <<>>
    ELSE (IF Head(lg).op = "apply_redactions" THEN <<Head(lg).page>> ELSE <<>>)
             \o CommittedPages(Tail(lg))

\* the characters a commit may leave in a cell under a mark of a call: a
\* blank, or a character of an overlay text
OverlayChars(c) ==
    { Blank } \cup { c.overlay_text[i] : i \in 1..Len(c.overlay_text) }
        \cup UNION { { GetOverlay(c.redactions[k], c.overlay_text)[i] :
                         i \in 1..Len(GetOverlay(c.redactions[k], c.overlay_text)) } :
                     k \in 1..Len(c.redactions) }

\* C20: in redact_by_coordinates no commit happens until every directive has
\* been validated and, if valid, staged; the commits are then made in one
\* pass over the pages, in ascending order, and the document is saved only
\* after that pass, so that the mark of every directive reported as applied
\* is committed in the document written.
C20_CommitAfterLastDirective ==
    CoordinatesServed
        => /\ \A i \in 1..Len(log), j \in 1..Len(log) :
                 (log[i].op = "add_redact_annot" /\ log[j].op = "apply_redactions") => i < j
           /\ \A i \in 1..Len(log), j \in 1..Len(log) :
                 (log[i].op = "apply_redactions" /\ log[j].op = "save") => i < j
           /\ ret.kind = "ok"
                 => /\ Len(ret.redactions) = Len(call.redactions)
                    /\ CommittedPages(log) = Range(Len(GivenFile(call).doc.pages))
                    /\ CountOps(log, "save") = 1
                    /\ out.kind = "pdf"
                    /\ \A p \in 1..Len(out.doc.pages) : out.doc.pages[p].annots = <<>>
                    /\ \A k \in 1..Len(call.redactions) :
                          ret.redactions[k].status = "applied"
                              => \A i \in 1..Len(out.doc.pages[GetPage(call.redactions[k]) + 1].text) :
                                   Overlaps(ToRect(call.redactions[k].bbox), CellRect(i))
                                       => out.doc.pages[GetPage(call.redactions[k]) + 1].text[i]
                                              \in OverlayChars(call)

\* two directives applied on two pages: both marks staged, then two commits,
\* then the save
C20_Witness ==
    /\ CoordinatesServed
    /\ ret.kind = "ok"
    /\ ret.total_redactions = 2
    /\ GetPage(call.redactions[1]) # GetPage(call.redactions[2])
    /\ CountOps(log, "add_redact_annot") = 2
    /\ CommittedPages(log) = <<0, 1>>
    /\ out.doc.pages[1].text # GivenFile(call).doc.pages[1].text

RedactionTools == { "redact_search", "redact_coordinates", "redact_images" }

\* a redaction tool was called on a document that opens
RedactionServed == call.tool \in RedactionTools /\ GivenFile(call).kind = "pdf"

\* a file without the annotations that are pending on its pages
Unmarked(file) ==
    IF file.kind = "pdf"
    THEN PdfFile([pages |-> [k \in 1..Len(file.doc.pages) |->
                               [file.doc.pages[k] EXCEPT !.annots = <<>>]]])
    ELSE file

\* a call of search or extract_text, on the same document without the
\* annotations that are pending on it
UnmarkedCall(c) ==
    IF c.family = "path" THEN [c EXCEPT !.file = Unmarked(@)]
    ELSE IF c.data.b64 THEN [c EXCEPT !.data = B64Encode(Unmarked(@.bytes))]
    ELSE c

\* the position in the log of the last operation of one kind on a page, 0 if
\* there is none
LastOn(lg, kind, page) ==
    IF CountOn(lg, kind, page) = 0 THEN 0
    ELSE CHOOSE i \in 1..Len(lg) :
           /\ lg[i].op = kind /\ lg[i].page = page
           /\ \A j \in (i + 1)..Len(lg) : ~(lg[j].op = kind /\ lg[j].page = page)

\* C21: marking and committing are two phases of every redaction operation.
\* A mark that is staged and not committed changes nothing of what search and
\* extraction observe: they return for a document with pending marks what
\* they return for the same document without them, and within a call of
\* redact_text_by_search every pattern is located in the text the page had
\* when the call began.  The content of a page changes at its commit only,
\* and when a redaction operation returns a success no page of the document
\* written carries a mark the call staged: the last mark staged on a page is
\* followed by a commit of that page.
C21_StageThenCommit ==
    /\ (call.tool \in { "search_text", "extract_text" })
           => ret = Replay(UnmarkedCall(call)).ret
    /\ (RedactionServed /\ ret.kind = "ok")
           => \A p \in 0..(Len(GivenFile(call).doc.pages) - 1) :
                /\ call.tool = "redact_search"
                       => CountOn(log, "add_redact_annot", p)
                              = HitCount(GivenFile(call).doc.pages[p + 1].text,
                                         call.search_strings)
                /\ CountOn(log, "apply_redactions", p) = 0
                       => out.doc.pages[p + 1] = GivenFile(call).doc.pages[p + 1]
                /\ CountOn(log, "add_redact_annot", p) > 0
                       => /\ LastOn(log, "add_redact_annot", p)
                                 < LastOn(log, "apply_redactions", p)
                          /\ out.doc.pages[p + 1].annots = <<>>

\* two patterns on a page that arrived with a pending mark: the second pattern
\* is found where the first is already marked, and the page is written with
\* no mark on it
C21_Witness ==
    /\ RedactionServed
    /\ call.tool = "redact_search"
    /\ ret.kind = "ok"
    /\ call.search_strings = << <<"a">>, <<"a", "b">> >>
    /\ GivenFile(call).doc.pages[1].annots # <<>>
    /\ CountOn(log, "add_redact_annot", 0) = 3
    /\ out.doc.pages[1].annots = <<>>

\* the summary redact_text_by_search is to return for the pages from the
\* p-th on: one entry for every page on which the patterns have a hit, with
\* the number of hits, every pattern of the list counted each time it is listed
RECURSIVE ExpectedSummary(_, _, _)
ExpectedSummary(pages, p, patterns) ==
    IF p > Len(pages) THEN <<>>
    ELSE (IF HitCount(pages[p].text, patterns) > 0
          THEN <<[page |-> p - 1, redactions |-> HitCount(pages[p].text, patterns)]>>
          ELSE <<>>) \o ExpectedSummary(pages, p + 1, patterns)

\* the sum of the counts of a summary
RECURSIVE SumRedactions(_)
SumRedactions(summary) ==
    IF summary = <<>> THEN 0
    ELSE Head(summary).redactions + SumRedactions(Tail(summary))

\* C22: in the result of redact_text_by_search, total_redactions is the sum,
\* over the pages and over the patterns with their multiplicity, of the
\* occurrences located on the page before its commit; summary has one entry,
\* in ascending page order, for exactly the pages with at least one mark, with
\* that page's count; the entries sum to total_redactions and pages_modified
\* is the number of entries.
C22_TotalsAndSummary ==
    (RedactSearchServed /\ ret.kind = "ok")
        => /\ ret.summary = ExpectedSummary(GivenFile(call).doc.pages, 1, call.search_strings)
           /\ ret.total_redactions = SumRedactions(ret.summary)
           /\ ret.pages_modified = Len(ret.summary)
           /\ \A k \in 1..Len(ret.summary) :
                 /\ ret.summary[k].redactions > 0
                 /\ ret.summary[k].redactions
                        = CountOn(log, "add_redact_annot", ret.summary[k].page)
                 /\ k > 1 => ret.summary[k - 1].page < ret.summary[k].page
           /\ ret.total_redactions = CountOps(log, "add_redact_annot")

\* one pattern listed twice, on two pages that both hold it: every hit is
\* counted twice
C22_Witness ==
    /\ RedactSearchServed
    /\ ret.kind = "ok"
    /\ call.search_strings = << <<"a">>, <<"a">> >>
    /\ ret.total_redactions = 6
    /\ ret.pages_modified = 2
    /\ ret.summary = << [page |-> 0, redactions |-> 4], [page |-> 1, redactions |-> 2] >>

\* a stepped call is being served, and has returned
CallStarted == threads # NoThreads

CallReturned == threads # NoThreads /\ threads.pc[1] = "done"

\* the pages a call of redact_images_in_pdf visits: those listed that the
\* document has, in the order listed, or every page
RECURSIVE VisitedPages(_, _)
VisitedPages(listed, n) ==
    IF listed = <<>> THEN <<>>
    ELSE (IF Head(listed) >= 0 /\ Head(listed) < n THEN <<Head(listed)>> ELSE <<>>)
             \o VisitedPages(Tail(listed), n)

\* a call that returned a success went through every page of its document
EveryPageProcessed(c, s) ==
    /\ ~s.faulted
    /\ CountOps(s.log, "save") = 1
    /\ s.out = Serialize(s.h[1].doc)
    /\ CASE c.tool = "redact_search" -> LoadedPages(s.log) = Range(Len(c.file.doc.pages))
         [] c.tool = "redact_images" ->
               LoadedPages(s.log) =
                   VisitedPages(IF c.page_numbers.some THEN c.page_numbers.v
                                ELSE Range(Len(c.file.doc.pages)),
                                Len(c.file.doc.pages))
         [] c.tool = "redact_coordinates" ->
               CommittedPages(s.log) = Range(Len(c.file.doc.pages))

\* a call in which an engine operation raised made no operation after it and
\* returned the message of the exception
StoppedAtFailure(c, s, r) ==
    /\ r = ErrorResult("engine failure in " \o c.fault.kind)
    /\ s.log[Len(s.log)].op = c.fault.kind
    /\ CountOps(s.log, c.fault.kind) = c.fault.n

\* the commits of a call that were made: all but one that raised
Commits(s) ==
    { i \in 1..Len(s.log) :
        s.log[i].op = "apply_redactions" /\ ~(s.faulted /\ i = Len(s.log)) }

\* every page a call committed is, in the document the call holds when it
\* returns, what it is when the engine does not fail: committed
NoRollback(c, s) ==
    \A i \in Commits(s) :
        /\ s.h[1].doc.pages[s.log[i].page + 1]
               = Replay([c EXCEPT !.fault = NoFault]).docs[1].pages[s.log[i].page + 1]
        /\ s.h[1].doc.pages[s.log[i].page + 1].annots = <<>>

RunOutcome(c, s, r) ==
    /\ r = Replay(c).ret
    /\ s.log = Replay(c).log
    /\ r.kind \in { "ok", "error" }
    /\ r.kind = "ok" => EveryPageProcessed(c, s)
    /\ s.faulted => StoppedAtFailure(c, s, r)
    /\ NoRollback(c, s)

\* C23: every redaction operation on a document with finitely many pages,
\* patterns and directives terminates: the call returns, either after it has
\* processed every page, with a success summary, or at the first engine
\* failure, with an error result; the pages it committed before a failure
\* stay committed in the document it holds (no rollback).
C23_RunsToCompletion ==
    /\ [](CallReturned => RunOutcome(threads.c[1], threads.work[1].s, threads.ret[1]))
    /\ CallStarted ~> CallReturned

\* the commit of the second page raised: the call returned an error, the first
\* page is committed in the document it holds and the second still carries
\* its marks
C23_Witness ==
    /\ CallReturned
    /\ threads.c[1].tool = "redact_search"
    /\ threads.c[1].fault = [kind |-> "apply_redactions", n |-> 2]
    /\ threads.ret[1].kind = "error"
    /\ threads.work[1].s.h[1].doc.pages[1].annots = <<>>
    /\ threads.work[1].s.h[1].doc.pages[1].text # threads.c[1].file.doc.pages[1].text
    /\ threads.work[1].s.h[1].doc.pages[2].annots # <<>>
    /\ threads.work[1].s.h[1].doc.pages[2].text = threads.c[1].file.doc.pages[2].text

ReadOnlyTools == { "extract_text", "search_text", "get_info", "verify" }

\* the document behind the i-th handle a call opened, as the call was given it
GivenDoc(c, i) ==
    IF c.tool = "verify"
    THEN (IF i = 1 THEN Original(c).doc ELSE Candidate(c).doc)
    ELSE GivenFile(c).doc

\* the operations of the engine that change a document or write one
Mutating == { "add_redact_annot", "apply_redactions", "save" }

\* C24: extract_text, search, get_info and verify are read-only: none of them
\* stages a mark, commits a page or serializes a document, and every document
\* a call opened has, when the call returns, the page content and the pending
\* marks it was given with, on success and on error.
C24_ReadOnly ==
    (call.tool \in ReadOnlyTools)
        => /\ \A i \in 1..Len(log) : log[i].op \notin Mutating
           /\ out = MissingFile
           /\ \A i \in 1..Len(Replay(call).docs) :
                 Replay(call).docs[i] = GivenDoc(call, i)

\* a verification of a candidate that carries pending marks, which finds a
\* requested string on it and reads the text of its pages
C24_Witness ==
    /\ call.tool = "verify"
    /\ ret.kind = "ok"
    /\ ret.overall_verdict = "FAIL"
    /\ Candidate(call).doc.pages[1].annots # <<>>
    /\ CountOps(log, "search_for") > 0
    /\ CountOps(log, "get_text") > 0
    /\ Len(handles) = 3

\* search_text_in_pdf has returned the matches of a document
SearchReturned == call.tool = "search_text" /\ ret.kind = "ok"

\* the text of the page doc[p] of a document
TextAt(doc, p) == doc.pages[WrapIndex(p, Len(doc.pages)) + 1].text

\* one record for every box the engine returned, search after search in the
\* order of the searches, and box after box in the order of the engine
RECURSIVE RecordsOf(_, _, _)
RecordsOf(lg, doc, match_type) ==
    IF lg = <<>> THEN <<>>
    ELSE (IF Head(lg).op = "search_for"
          THEN [k \in 1..Len(Locate(TextAt(doc, Head(lg).page), Head(lg).needle, 1)) |->
                  [ page |-> Head(lg).page, text |-> Head(lg).needle,
                    bbox |-> Locate(TextAt(doc, Head(lg).page), Head(lg).needle, 1)[k],
                    match_type |-> match_type ]]
          ELSE <<>>) \o RecordsOf(Tail(lg), doc, match_type)

\* the pages a call of search_text_in_pdf goes through
SearchedPages(c) ==
    IF c.page_number = NoPage THEN Range(Len(GivenFile(c).doc.pages)) ELSE c.page_number

MarksKept(given, written) ==
    \A k \in 1..Len(given) : \E j \in 1..Len(written) : written[j] = given[k]

\* C26 as stated: a redaction operation commits only the marks it staged in
\* the call: a mark that was pending on a page of the document when the call
\* began is still pending in the document written, and a page on which the
\* call staged nothing is written as it was given, for redact_text_by_search,
\* redact_by_coordinates and redact_images_in_pdf alike.
C26_ForeignMarksStayPending ==
    (RedactionServed /\ ret.kind = "ok")
        => \A p \in 1..Len(GivenFile(call).doc.pages) :
             /\ MarksKept(GivenFile(call).doc.pages[p].annots, out.doc.pages[p].annots)
             /\ CountOn(log, "add_redact_annot", p - 1) = 0
                    => out.doc.pages[p] = GivenFile(call).doc.pages[p]

\* C27 as stated: in every tool and on every path, each use of a document
\* handle (reading the page count, accessing a page, searching, serializing)
\* happens before that handle is closed: no operation on a handle follows its
\* close, and the engine never reports the use of a closed document, also on
\* the invalid-page path of extract_text.
C27_NoUseAfterClose ==
    (call # Idle)
        => /\ \A i \in 1..Len(log), j \in 1..Len(log) :
                 (i < j /\ log[i].op = "close") => log[j].h # log[i].h
           /\ ret # ErrorResult("document closed")

\* a path-based redaction tool was called
PathRedactionCalled == call.tool \in RedactionTools /\ call.family = "path"

\* the operations a handler makes on the pages of its document
PageWork ==
    { "load_page", "search_for", "add_redact_annot", "apply_redactions", "get_images",
      "get_image_bbox" }

\* C28: in redact_text_by_search, redact_by_coordinates and
\* redact_images_in_pdf the output file is written only after every page has
\* been processed and committed: the save follows every operation on a page;
\* a call that returns an error without having reached the save has written
\* nothing to output_path, and a call that returns a success has written the
\* document it committed, once.
C28_OutputWrittenLast ==
    PathRedactionCalled
        => /\ \A i \in 1..Len(log), j \in 1..Len(log) :
                 (log[i].op = "save" /\ log[j].op \in PageWork) => j < i
           /\ (ret.kind = "error" /\ CountOps(log, "save") = 0) => out = MissingFile
           /\ ret.kind = "ok"
                 => /\ CountOps(log, "save") = 1
                    /\ out = Serialize(Replay(call).docs[1])
                    /\ \A p \in 1..Len(out.doc.pages) :
                          CountOn(log, "add_redact_annot", p - 1) > 0
                              => out.doc.pages[p].annots = <<>>

\* the commit of the second page raised in redact_by_coordinates: an error is
\* returned and no file was written, although the first page was committed
C28_Witness ==
    /\ PathRedactionCalled
    /\ call.tool = "redact_coordinates"
    /\ call.fault = [kind |-> "apply_redactions", n |-> 2]
    /\ ret.kind = "error"
    /\ CountOps(log, "add_redact_annot") > 0
    /\ CountOps(log, "apply_redactions") = 2
    /\ CountOps(log, "save") = 0
    /\ out = MissingFile

\* C29 as stated: in regex mode search reports each visual occurrence on a
\* page at most once: no two match records of a call have the same page and
\* the same bounding box, also when the regex matches the same substring at
\* several positions of the page's text.
C29_NoDuplicateRecords ==
    (SearchReturned /\ call.use_regex)
        => \A i \in 1..Len(ret.matches), j \in 1..Len(ret.matches) :
             (ret.matches[i].page = ret.matches[j].page
                 /\ ret.matches[i].bbox = ret.matches[j].bbox) => i = j

\* search_text_in_pdf was called on a document that opens
SearchServed == call.tool = "search_text" /\ GivenFile(call).kind = "pdf"

\* C30 as stated: search with a page argument outside [0, pageCount) (negative,
\* or equal to or above pageCount) returns an error result and no match
\* record, and searches nothing; a call with a page argument searches no page
\* but the one requested, and every record of a successful call carries a
\* page index inside [0, pageCount).
C30_BadPageIsAnError ==
    SearchServed
        => /\ (call.page_number # NoPage /\ ~PageInRange(call))
                 => /\ ret.kind = "error"
                    /\ CountOps(log, "search_for") = 0
           /\ call.page_number # NoPage
                 => \A i \in 1..Len(log) :
                      log[i].op = "search_for" => log[i].page = call.page_number[1]
           /\ ret.kind = "ok"
                 => \A k \in 1..Len(ret.matches) :
                      /\ ret.matches[k].page >= 0
                      /\ ret.matches[k].page < Len(GivenFile(call).doc.pages)

-----------------------------------------------------------------------------
(* Properties of the session store *)

\* the operations that take a session identifier
IdentifierTools ==
    { "get", "extract_text", "search_text", "get_info", "save", "close", "redact_text" }

\* the identifiers that are in the store
LiveNow == { store[k].id : k \in 1..Len(store) }

\* C8: after any sequence of loads and closes, get, extract_text, search_text,
\* get_info, save and close called with an identifier that is not in the
\* store return a not-found error that carries the live identifiers, and
\* leave the store and its handles as they were.
C8_UnknownIdentifier ==
    [][ (call'.tool \in IdentifierTools /\ call'.id \notin LiveNow)
            => /\ ret'.kind = "error"
               /\ ret'.error = "not found"
               /\ ret'.live = LiveNow
               /\ store' = store
               /\ open' = open
               /\ ~crashed' ]_vars

\* a save through an identifier that is not live while another one is, after
\* two loads
C8_Witness ==
    /\ call.tool = "save"
    /\ call.id \notin LiveNow
    /\ ret.kind = "error"
    /\ ret.live = LiveNow
    /\ LiveNow # {}
    /\ opened = 2

\* the text a read through an identifier returns, page by page
TextsOf(doc) == [k \in 1..Len(doc.pages) |-> doc.pages[k].text]

\* C9: after any sequence of loads and closes the store holds exactly one open
\* handle per live identifier and no handle is open that the store does not
\* hold; a load with a live identifier leaves the handle of the session it
\* replaces released, and a read through the identifier then returns the
\* content of the source just loaded.
C9_OneHandlePerSession ==
    /\ [](/\ Cardinality(LiveNow) = Len(store)
          /\ Cardinality(open) = Len(store)
          /\ open = { store[k].handle : k \in 1..Len(store) })
    /\ [][ (call'.tool = "load" /\ ret'.kind = "ok")
               => /\ \A k \in 1..Len(store) :
                        store[k].id = ret'.document_id => store[k].handle \notin open'
                  /\ extract_text(store', open', opened', ret'.document_id).ret.pages
                         = TextsOf(call'.source.file.doc) ]_vars

\* a session loaded again while a later one is live: it keeps its place in
\* the store and has the newer handle
C9_Witness ==
    /\ call.tool = "load"
    /\ ret.kind = "ok"
    /\ Len(store) = 2
    /\ store[1].handle > store[2].handle
    /\ store[1].id = ret.document_id

C11_ListIsTheStore ==
    [][ call'.tool = "list"
            => /\ ret'.kind = "ok"
               /\ ret'.total_documents = Cardinality(LiveNow)
               /\ Len(ret'.documents) = Len(store)
               /\ \A k \in 1..Len(store) :
                     /\ ret'.documents[k].document_id = store[k].id
                     /\ ret'.documents[k].pages = Len(store[k].doc.pages)
               /\ store' = store
               /\ open' = open ]_vars

\* a list of two sessions of which the one that sorts last was loaded first
C11_Witness ==
    /\ call.tool = "list"
    /\ ret.total_documents = 2
    /\ ret.documents[1].document_id = "d2"
    /\ ret.documents[2].document_id = "d1"

\* a list of the empty store after a session was loaded and closed
C11_WitnessEmpty ==
    /\ call.tool = "list"
    /\ ret.total_documents = 0
    /\ ret.documents = <<>>
    /\ opened > 0

\* the session of a live identifier
SessionOf(id) == store[IndexOf(store, id)]

\* C12: save writes the document of the session as it is in memory, every
\* redaction committed so far included (no pattern redacted in the session
\* occurs in the file written), and changes nothing else: the session stays
\* in the store with the same handle and content, and redaction, search, save
\* and close on the identifier succeed afterward.
C12_SaveKeepsSession ==
    [][ (call'.tool = "save" /\ call'.id \in LiveNow)
            => /\ ret'.kind = "ok"
               /\ out' = Serialize(SessionOf(call'.id).doc)
               /\ \A X \in SessionOf(call'.id).redacted : ~OccursIn(out', X)
               /\ store' = store
               /\ open' = open
               /\ redact_text(store', open', opened', call'.id, <<<<"b">>>>, <<>>).ret.kind = "ok"
               /\ search_text(store', open', opened', call'.id, <<"b">>).ret.kind = "ok"
               /\ save_pdf(store', open', opened', call'.id).ret.kind = "ok"
               /\ close_pdf(store', open', opened', call'.id).ret.kind = "ok" ]_vars

\* a save of a session in which a pattern was redacted that its source held
C12_Witness ==
    /\ call.tool = "save"
    /\ ret.kind = "ok"
    /\ SessionOf(call.id).redacted # {}
    /\ out.kind = "pdf"
    /\ \E i \in 1..Len(out.doc.pages[1].text) : out.doc.pages[1].text[i] = Blank
    /\ call.id \in LiveNow

=============================================================================
